---- MODULE Spec2Model ----
(***************************************************************************)
(* TALKER-TTS, tts_service/audio_queue.py: the AudioQueue playback queue.  *)
(*                                                                         *)
(* One worker thread (_process_audio_queue) consumes a queue.Queue of      *)
(* (audio_file, volume, playback_id) tuples; caller threads run            *)
(* queue_audio, clear_pending and shutdown.  The code takes no lock of its *)
(* own: the only atomic units are the single Queue operations (put, get,   *)
(* get_nowait, empty) and single reads/writes of the instance fields.      *)
(* A step of the model holds at most one access to the shared state that   *)
(* another thread can observe or disturb, together with the thread-local   *)
(* code around it (uuid4 and the file test before the write of             *)
(* current_playback_id; the call of the callback right after the write of  *)
(* is_playing; is_alive, put(None) and join in shutdown, whose relative    *)
(* timing no other thread can tell apart).                                 *)
(*                                                                         *)
(* A queue item is modelled by its playback_id (a uuid4 string in the      *)
(* code, a fresh positive number here); audio_file and volume are carried  *)
(* through the queue untouched and decide nothing.  Queue.task_done() only *)
(* decrements a counter that nothing in the program reads (Queue.join is   *)
(* never called), so it is not part of the state.  The outer handler of    *)
(* the worker (lines 78-83) is reached by none of the statements it        *)
(* guards: the items are always 3-tuples, the callback's exceptions are    *)
(* caught at line 71, and task_done is called at most once per put.        *)
(*                                                                         *)
(* RadioEffectsProcessor (radio_effects_processor.py) and VoiceFileManager *)
(* (voice_file_manager.py) share no state with the queue.  Each has its    *)
(* own variables, initial states and next-state relation further down      *)
(* (EffectsSpec, VoiceSpec); under Spec they stay idle, and under their    *)
(* own specification the queue stays as constructed.  The same holds for   *)
(* AudioPlayer and its backends (BackendSpec), the request queue of the    *)
(* remote server (RemoteSpec) and generate_tts (GeneratorSpec).            *)
(***************************************************************************)
EXTENDS Integers, Sequences, FiniteSets, TLC

(* ---------------------------------------------------------------- bounds *)
\* accepted queue_audio calls (fresh playback ids) in one behaviour
MaxRequests == 3
\* shutdown calls in one behaviour
MaxShutdowns == 1

(* ------------------------------------------------------------- constants *)
\* Python's None: the initial current_playback_id and the shutdown sentinel
None == 0

\* the caller threads (producers); any thread of the service may call in
Callers == {"c1", "c2"}

\* the worker threads _start_queue_worker starts: exactly one
QueueThreadsTwo == {"queue_thread", "queue_thread_2"}
QueueThreads == {"queue_thread"}

\* outcomes of playback_callback(audio_file, volume)
Outcomes == {"success", "failure", "exception"}

VARIABLES
    audio_queue,          \* self.audio_queue: FIFO of playback ids / None
    is_playing,           \* self.is_playing
    current_playback_id,  \* self.current_playback_id
    stop_requested,       \* self.stop_requested
    wpc,                  \* worker thread -> position in _process_audio_queue
    witem,                \* worker thread -> audio_item it holds (None: none)
    success,              \* worker thread -> local success ("unset" until
                          \* the first callback ends, then its last value)
    cpc,                  \* caller -> position in the method it runs
    cop,                  \* caller -> method it runs ("none" when idle)
    cid,                  \* caller -> local playback_id of its queue_audio
    nextId,               \* number of playback ids generated so far
    nShutdown,            \* number of shutdown calls so far
    \* ---- history (written, never read by the program's steps) ----
    enqueued,             \* playback ids in the order they were put
    played,               \* playback ids in the order the callback started
    dropped,              \* items taken off the queue and not played: ids
                          \* the worker skipped as cancelled (line 54) and
                          \* items clear_pending removed (None: the sentinel)
    clearCalled,          \* clear_pending has been called from outside
    wstale,               \* worker thread -> the item it dequeued last was
                          \* not the current request when it was dequeued
    scenario              \* caller -> situation its queue_audio call is in

\* RadioEffectsProcessor.apply_radio_effects (radio_effects_processor.py)
VARIABLES
    fxpc,                 \* position in apply_radio_effects
    input_file,           \* the file at input_file: exists, samples, rate
    effect_strength,      \* effect_strength, in tenths (8 is 0.8)
    pda_beep,             \* self.pda_beep_file and what decoding it gives
    raises,               \* the statement that raises in this application
    audio_data,           \* locals of apply_radio_effects ...
    sample_rate,
    eq_processed,
    processed_audio,
    final_audio,
    bit_depth,            \* local of _apply_digital_transfer_effects
    output_file,          \* samples written to radio_processed_<name>
    result,               \* what apply_radio_effects returned
    applications,         \* applications made so far in this behaviour
    first_output          \* samples the first application wrote (history)

\* VoiceFileManager (voice_file_manager.py)
VARIABLES
    character_voices,      \* self.character_voices: key -> voice file
    character_voices_file, \* what character_voices.json holds
    voice_files,           \* the voice files that exist under voices_dir
    last_info,             \* character_info of the last call (history)
    last_voice,            \* what the last call returned (history)
    returned_for           \* key -> last voice file a call returned for a
                           \* character with that key (history)

\* AudioPlayer over AudioBackendDetector and the three backends
\* (audio_player.py, audio_backends.py); times are in tenths of a second
VARIABLES
    bpc,                  \* position in AudioPlayer's construction and calls
    pygame_importable,    \* import pygame and mixer.init() succeed here
    wmplayer_found,       \* "where wmplayer" succeeds here
    backend_index,        \* detect_best_backend: index into self.backends
    self_pygame,          \* PygameBackend.pygame is set
    detector_preferred,   \* AudioBackendDetector.preferred_backend
    preferred_backend,    \* AudioPlayer.preferred_backend
    player_audio_queue,   \* AudioPlayer.audio_queue: None or an AudioQueue
    play_audio_result,    \* what the last play_audio call did
    timeout_duration,     \* local of PygameBackend.play
    elapsed,              \* time.time() - start_time
    timed_out,            \* the timeout branch (lines 98-101) was taken
    play_result,          \* what the last backend play() returned
    playbacks             \* play_audio calls made so far

\* the request queue of the remote TTS server (remote_tts_server.py)
VARIABLES
    tts_queue,            \* tts_queue: FIFO of request numbers / None
    tts_requests,         \* the TTSRequest objects created so far, in order
    is_processing,        \* is_processing
    server_stop_requested,\* stop_requested of remote_tts_server.py
    rpc,                  \* position of the thread in process_tts_queue
    tts_request,          \* local tts_request of process_tts_queue
    dequeued,             \* request numbers in the order of the get (history)
    responses             \* request number -> what the endpoint answered

\* ChatterboxGenerator.generate_tts over the remote client
\* (chatterbox_generator.py, remote_tts_client.py)
VARIABLES
    gpc,                  \* position in generate_tts
    remote_config,        \* remote_config.json: enabled, fallback_to_local
    connection_ok,        \* what RemoteTTSClient.test_connection returns
    remote_outcome,       \* what the remote generation would do
    local_outcome,        \* what the local generation would do
    remote_client,        \* local remote_client of _try_remote_tts
    remote_file,          \* local remote_file of generate_tts
    local_called,         \* _generate_local_tts was called (history)
    generate_result       \* what generate_tts returned

vars == <<audio_queue, is_playing, current_playback_id, stop_requested,
          wpc, witem, cpc, cop, cid, nextId, nShutdown,
          success, enqueued, played, dropped, clearCalled, wstale,
          scenario,
          fxpc, input_file, effect_strength, pda_beep, raises, audio_data,
          sample_rate, eq_processed, processed_audio, final_audio, bit_depth,
          output_file, result, applications, first_output,
          character_voices, character_voices_file, voice_files, last_info,
          last_voice, returned_for,
          bpc, pygame_importable, wmplayer_found, backend_index,
          self_pygame, detector_preferred, preferred_backend,
          player_audio_queue, play_audio_result, timeout_duration, elapsed,
          timed_out, play_result, playbacks,
          tts_queue, tts_requests, is_processing, server_stop_requested,
          rpc, tts_request, dequeued, responses,
          gpc, remote_config, connection_ok, remote_outcome, local_outcome,
          remote_client, remote_file, local_called, generate_result>>

\* the state of RadioEffectsProcessor, which AudioQueue never touches
effectsVars == <<fxpc, input_file, effect_strength, pda_beep, raises,
                 audio_data, sample_rate, eq_processed, processed_audio,
                 final_audio, bit_depth, output_file, result, applications,
                 first_output>>
\* the state of VoiceFileManager and of the voices directory
voiceVars == <<character_voices, character_voices_file, voice_files,
               last_info, last_voice, returned_for>>
\* the state of AudioPlayer, its detector and its backends
backendVars == <<bpc, pygame_importable, wmplayer_found, backend_index,
                 self_pygame, detector_preferred, preferred_backend,
                 player_audio_queue, play_audio_result, timeout_duration,
                 elapsed, timed_out, play_result, playbacks>>
\* the state of the remote server's request queue
remoteVars == <<tts_queue, tts_requests, is_processing,
                server_stop_requested, rpc, tts_request, dequeued,
                responses>>
\* the state of a generate_tts call and its configuration
generatorVars == <<gpc, remote_config, connection_ok, remote_outcome,
                   local_outcome, remote_client, remote_file, local_called,
                   generate_result>>
\* the components modelled after the queue, the effects and the voices
otherVars == <<backendVars, remoteVars, generatorVars>>
\* the state outside AudioQueue
elsewhere == <<effectsVars, voiceVars, otherVars>>

shared == <<audio_queue, is_playing, current_playback_id, stop_requested>>
workerVars == <<wpc, witem, success>>
callerVars == <<cpc, cop, cid>>
counters == <<nextId, nShutdown>>
history == <<enqueued, played, dropped, clearCalled, wstale>>

Range(s) == {s[i] : i \in DOMAIN s}

\* AudioQueue.__init__ (lines 9-24): an empty queue, nothing playing, the
\* worker thread started
QueueInit ==
    /\ audio_queue = <<>>
    /\ is_playing = FALSE
    /\ current_playback_id = None
    /\ stop_requested = FALSE
    /\ wpc = [w \in QueueThreads |-> "loop"]
    /\ witem = [w \in QueueThreads |-> None]
    /\ success = [w \in QueueThreads |-> "unset"]
    /\ cpc = [t \in Callers |-> "idle"]
    /\ cop = [t \in Callers |-> "none"]
    /\ cid = [t \in Callers |-> None]
    /\ nextId = 0
    /\ nShutdown = 0
    /\ enqueued = <<>>
    /\ played = <<>>
    /\ dropped = {}
    /\ clearCalled = FALSE
    /\ wstale = [w \in QueueThreads |-> FALSE]
    /\ scenario = [t \in Callers |-> "none"]

\* RadioEffectsProcessor before any apply_radio_effects call
EffectsIdle ==
    /\ fxpc = "idle"
    /\ input_file = [exists |-> FALSE, samples |-> <<>>, rate |-> 0]
    /\ effect_strength = 0
    /\ pda_beep = [kind |-> "fallback", data |-> <<>>]
    /\ raises = "nothing"
    /\ audio_data = <<>>
    /\ sample_rate = 0
    /\ eq_processed = <<>>
    /\ processed_audio = <<>>
    /\ final_audio = <<>>
    /\ bit_depth = 0
    /\ output_file = <<>>
    /\ result = "pending"
    /\ applications = 0
    /\ first_output = <<>>

(* --- voice_file_manager.py: characters, keys and voice files --- *)
\* Python's None as a voice file, and the value of a key that is not in a
\* dict
NoVoice == "None"
\* name values of character_info and what name.lower().strip() makes of
\* them
Names == {"Wolf", "wolf ", "Unknown"}
LowerStrip(name) ==
    CASE name = "Wolf" -> "wolf"
      [] name = "wolf " -> "wolf"
      [] name = "Unknown" -> "unknown"
\* faction values (lower case already): duty has a directory of voices,
\* freedom has none
Factions == {"duty", "freedom"}
CharacterInfos == [name : Names, faction : Factions]

\* lines 60-77: named characters get faction_name; the others
\* faction_npc_<hash>, the hash taken over the character_info as given
\* (personality is absent here; md5 is taken to tell the infos apart)
GetCharacterKey(info) ==
    IF LowerStrip(info.name) \notin {"", "unknown", "unnamed", "npc"}
    THEN [faction |-> info.faction, name |-> LowerStrip(info.name),
          hash |-> ""]
    ELSE [faction |-> info.faction, name |-> "npc", hash |-> info.name]
CharacterKeys == {GetCharacterKey(info) : info \in CharacterInfos}

\* voices_dir/factions/<faction>/*.wav and voices_dir/default.wav
FactionVoices(faction) ==
    IF faction = "duty" THEN {"duty_1.wav", "duty_2.wav"} ELSE {}
DefaultVoice == "default.wav"
AllVoiceFiles == UNION {FactionVoices(f) : f \in Factions} \cup {DefaultVoice}

\* VoiceFileManager not in use: no voices, no cache
VoiceIdle ==
    /\ character_voices = [k \in CharacterKeys |-> NoVoice]
    /\ character_voices_file = [k \in CharacterKeys |-> NoVoice]
    /\ voice_files = {}
    /\ last_info = [name |-> "Unknown", faction |-> "freedom"]
    /\ last_voice = NoVoice
    /\ returned_for = [k \in CharacterKeys |-> NoVoice]

\* no AudioPlayer constructed
BackendIdle ==
    /\ bpc = "idle"
    /\ pygame_importable = FALSE
    /\ wmplayer_found = FALSE
    /\ backend_index = 1
    /\ self_pygame = FALSE
    /\ detector_preferred = "None"
    /\ preferred_backend = "None"
    /\ player_audio_queue = "None"
    /\ play_audio_result = "unset"
    /\ timeout_duration = 0
    /\ elapsed = 0
    /\ timed_out = FALSE
    /\ play_result = "unset"
    /\ playbacks = 0

\* remote_tts_server.py not running
RemoteIdle ==
    /\ tts_queue = <<>>
    /\ tts_requests = <<>>
    /\ is_processing = FALSE
    /\ server_stop_requested = FALSE
    /\ rpc = "idle"
    /\ tts_request = None
    /\ dequeued = <<>>
    /\ responses = <<>>

\* no generate_tts call
GeneratorIdle ==
    /\ gpc = "idle"
    /\ remote_config = [enabled |-> FALSE, fallback_to_local |-> TRUE]
    /\ connection_ok = FALSE
    /\ remote_outcome = "none"
    /\ local_outcome = "no_model"
    /\ remote_client = "None"
    /\ remote_file = "None"
    /\ local_called = FALSE
    /\ generate_result = "pending"

\* the components modelled further down, not in use
OthersIdle == BackendIdle /\ RemoteIdle /\ GeneratorIdle

\* the playback queue on its own: the other components stay idle
Init == QueueInit /\ EffectsIdle /\ VoiceIdle /\ OthersIdle

(* ------------------------------------------------- history bookkeeping *)
\* A caller's queue_audio call is tagged with the situation it was made in:
\*   "idle_backlog": nothing playing and the queue non-empty at the call,
\*                   and since then no dequeue/playback start by the worker
\*                   and no step of another caller;
\*   "in_play":      made while a playback callback was executing, which
\*                   has not returned since, and no step of another caller;
\*   "clear_quiet":  an external clear_pending call during which no
\*                   queue_audio call has put its request;
\*   "none":         anything else.
\* The tags are history only: no step of the program reads them.
DropScenario(kinds, except) ==
    [u \in Callers |->
        IF u # except /\ scenario[u] \in kinds THEN "none" ELSE scenario[u]]

OthersActive(t) == \E u \in Callers \ {t} : cpc[u] # "idle"

AllScenarios == {"idle_backlog", "in_play", "clear_quiet"}

(* ------------------------------------------- worker: _process_audio_queue *)
\* line 30: while not self.stop_requested
WorkerLoopIgnoresStop(w) ==
    /\ wpc[w] = "loop"
    /\ wpc' = [wpc EXCEPT ![w] = "get"]
    /\ UNCHANGED <<shared, witem, success, callerVars, counters, history,
                   scenario>>
    /\ UNCHANGED elsewhere

WorkerLoop(w) ==
    /\ wpc[w] = "loop"
    /\ wpc' = [wpc EXCEPT ![w] = IF stop_requested THEN "stopped" ELSE "get"]
    /\ UNCHANGED <<shared, witem, success, callerVars, counters, history,
                   scenario>>
    /\ UNCHANGED elsewhere

\* line 34: audio_item = self.audio_queue.get(timeout=1.0), an item is there
WorkerGet(w) ==
    /\ wpc[w] = "get"
    /\ audio_queue # <<>>
    /\ witem' = [witem EXCEPT ![w] = Head(audio_queue)]
    /\ audio_queue' = Tail(audio_queue)
    /\ wpc' = [wpc EXCEPT ![w] = "got"]
    /\ wstale' = [wstale EXCEPT ![w] =
                    Head(audio_queue) \notin {None, current_playback_id}]
    /\ scenario' = DropScenario({"idle_backlog"}, "nobody")
    /\ UNCHANGED <<is_playing, current_playback_id, stop_requested, success,
                   callerVars, counters, enqueued, played, dropped,
                   clearCalled>>
    /\ UNCHANGED elsewhere

\* lines 35-37: the get timed out on an empty queue (Empty): continue
WorkerGetTimeout(w) ==
    /\ wpc[w] = "get"
    /\ audio_queue = <<>>
    /\ wpc' = [wpc EXCEPT ![w] = "loop"]
    /\ UNCHANGED <<shared, witem, success, callerVars, counters, history,
                   scenario>>
    /\ UNCHANGED elsewhere

\* lines 42-57: the shutdown signal breaks the loop; an item whose
\* playback_id is not the current one is skipped; the current one goes on
WorkerGotNoStaleCheck(w) ==
    /\ wpc[w] = "got"
    /\ wpc' = [wpc EXCEPT ![w] = IF witem[w] = None THEN "stopped" ELSE "start"]
    /\ UNCHANGED <<shared, witem, success, callerVars, counters, history,
                   scenario>>
    /\ UNCHANGED elsewhere

WorkerGot(w) ==
    /\ wpc[w] = "got"
    /\ IF witem[w] = None
       THEN /\ wpc' = [wpc EXCEPT ![w] = "stopped"]
            /\ UNCHANGED <<witem, dropped>>
       ELSE IF witem[w] # current_playback_id
       THEN /\ wpc' = [wpc EXCEPT ![w] = "loop"]
            /\ dropped' = dropped \cup {witem[w]}
            /\ witem' = [witem EXCEPT ![w] = None]
       ELSE /\ wpc' = [wpc EXCEPT ![w] = "start"]
            /\ UNCHANGED <<witem, dropped>>
    /\ UNCHANGED <<shared, success, callerVars, counters, enqueued, played,
                   clearCalled, wstale, scenario>>
    /\ UNCHANGED elsewhere

\* lines 59-64: self.is_playing = True; the callback is invoked
WorkerStartRechecks(w) ==
    /\ wpc[w] = "start"
    /\ IF witem[w] # current_playback_id
       THEN /\ wpc' = [wpc EXCEPT ![w] = "loop"]
            /\ dropped' = dropped \cup {witem[w]}
            /\ witem' = [witem EXCEPT ![w] = None]
            /\ UNCHANGED <<is_playing, played>>
       ELSE /\ is_playing' = TRUE
            /\ played' = Append(played, witem[w])
            /\ wpc' = [wpc EXCEPT ![w] = "playing"]
            /\ UNCHANGED <<witem, dropped>>
    /\ scenario' = DropScenario({"idle_backlog"}, "nobody")
    /\ UNCHANGED <<audio_queue, current_playback_id, stop_requested,
                   success, callerVars, counters, enqueued,
                   clearCalled, wstale>>
    /\ UNCHANGED elsewhere

WorkerStart(w) ==
    /\ wpc[w] = "start"
    /\ is_playing' = TRUE
    /\ played' = Append(played, witem[w])
    /\ wpc' = [wpc EXCEPT ![w] = "playing"]
    /\ scenario' = DropScenario({"idle_backlog"}, "nobody")
    /\ UNCHANGED <<audio_queue, current_playback_id, stop_requested, witem,
                   success, callerVars, counters, enqueued, dropped,
                   clearCalled, wstale>>
    /\ UNCHANGED elsewhere

\* lines 64-73: the callback returns True, returns False, or raises an
\* Exception, which the inner handler catches (success = False)
WorkerCallbackReturnCrash(w, o) ==
    /\ wpc[w] = "playing"
    /\ wpc' = [wpc EXCEPT ![w] = IF o = "exception" THEN "stopped" ELSE "finish"]
    /\ success' = [success EXCEPT ![w] =
                     IF o = "success" THEN "True" ELSE "False"]
    /\ scenario' = DropScenario({"in_play"}, "nobody")
    /\ UNCHANGED <<shared, witem, callerVars, counters, history>>
    /\ UNCHANGED elsewhere

WorkerCallbackReturn(w, o) ==
    /\ wpc[w] = "playing"
    /\ wpc' = [wpc EXCEPT ![w] = "finish"]
    /\ success' = [success EXCEPT ![w] =
                     IF o = "success" THEN "True" ELSE "False"]
    /\ scenario' = DropScenario({"in_play"}, "nobody")
    /\ UNCHANGED <<shared, witem, callerVars, counters, history>>
    /\ UNCHANGED elsewhere

\* lines 75-76: self.is_playing = False; task_done(); back to the loop test
WorkerFinishKeepsFlagOnFailure(w) ==
    /\ wpc[w] = "finish"
    /\ is_playing' = (success[w] = "False")
    /\ witem' = [witem EXCEPT ![w] = None]
    /\ wpc' = [wpc EXCEPT ![w] = "loop"]
    /\ UNCHANGED <<audio_queue, current_playback_id, stop_requested, success,
                   callerVars, counters, history, scenario>>
    /\ UNCHANGED elsewhere

WorkerFinishSkipsLoopTest(w) ==
    /\ wpc[w] = "finish"
    /\ is_playing' = FALSE
    /\ witem' = [witem EXCEPT ![w] = None]
    /\ wpc' = [wpc EXCEPT ![w] = "get"]
    /\ UNCHANGED <<audio_queue, current_playback_id, stop_requested, success,
                   callerVars, counters, history, scenario>>
    /\ UNCHANGED elsewhere

WorkerFinishRequeue(w) ==
    /\ wpc[w] = "finish"
    /\ is_playing' = FALSE
    /\ audio_queue' = IF success[w] = "False"
                      THEN Append(audio_queue, witem[w]) ELSE audio_queue
    /\ witem' = [witem EXCEPT ![w] = None]
    /\ wpc' = [wpc EXCEPT ![w] = "loop"]
    /\ UNCHANGED <<current_playback_id, stop_requested, success,
                   callerVars, counters, history, scenario>>
    /\ UNCHANGED elsewhere

WorkerFinish(w) ==
    /\ wpc[w] = "finish"
    /\ is_playing' = FALSE
    /\ witem' = [witem EXCEPT ![w] = None]
    /\ wpc' = [wpc EXCEPT ![w] = "loop"]
    /\ UNCHANGED <<audio_queue, current_playback_id, stop_requested, success,
                   callerVars, counters, history, scenario>>
    /\ UNCHANGED elsewhere

WorkerStep(w) ==
    \/ WorkerLoop(w)
    \/ WorkerGet(w)
    \/ WorkerGetTimeout(w)
    \/ WorkerGot(w)
    \/ WorkerStart(w)
    \/ \E o \in Outcomes : WorkerCallbackReturn(w, o)
    \/ WorkerFinish(w)

(* ------------------------------------------------- callers: queue_audio *)
\* The situation a queue_audio call by t starts in (history only).
ScenarioAtCall(t) ==
    IF OthersActive(t) THEN "none"
    ELSE IF \E w \in QueueThreads : wpc[w] = "playing" THEN "in_play"
    ELSE IF /\ ~is_playing
            /\ \E i \in DOMAIN audio_queue : audio_queue[i] # None
            /\ \A w \in QueueThreads : wpc[w] \notin {"playing", "finish"}
         THEN "idle_backlog"
    ELSE "none"

\* a step of caller t ends the queue_audio scenario of every other caller
OnlyScenario(t, s) ==
    [u \in Callers |->
        IF u = t THEN s
        ELSE IF scenario[u] = "clear_quiet" THEN "clear_quiet" ELSE "none"]

\* a put by caller t ends every other caller's scenario
PutScenario(t, s) == [u \in Callers |-> IF u = t THEN s ELSE "none"]

\* lines 89-91: the file does not exist: return False
QueueAudioMissingAssignsFirst(t) ==
    /\ cpc[t] = "idle"
    /\ nextId < MaxRequests
    /\ nextId' = nextId + 1
    /\ current_playback_id' = nextId + 1
    /\ cpc' = [cpc EXCEPT ![t] = "qa_false"]
    /\ cop' = [cop EXCEPT ![t] = "queue_audio"]
    /\ scenario' = OnlyScenario(t, "none")
    /\ UNCHANGED <<audio_queue, is_playing, stop_requested, workerVars, cid,
                   nShutdown, history>>
    /\ UNCHANGED elsewhere

QueueAudioMissing(t) ==
    /\ cpc[t] = "idle"
    /\ cpc' = [cpc EXCEPT ![t] = "qa_false"]
    /\ cop' = [cop EXCEPT ![t] = "queue_audio"]
    /\ scenario' = OnlyScenario(t, "none")
    /\ UNCHANGED <<shared, workerVars, cid, counters, history>>
    /\ UNCHANGED elsewhere

\* lines 89-95: the file exists; playback_id = str(uuid.uuid4());
\* self.current_playback_id = playback_id
QueueAudioAcceptRefusedAfterStop(t) ==
    /\ cpc[t] = "idle"
    /\ ~stop_requested
    /\ nextId < MaxRequests
    /\ nextId' = nextId + 1
    /\ cid' = [cid EXCEPT ![t] = nextId + 1]
    /\ current_playback_id' = nextId + 1
    /\ cpc' = [cpc EXCEPT ![t] = "qa_flag"]
    /\ cop' = [cop EXCEPT ![t] = "queue_audio"]
    /\ scenario' = OnlyScenario(t, ScenarioAtCall(t))
    /\ UNCHANGED <<audio_queue, is_playing, stop_requested, workerVars,
                   nShutdown, history>>
    /\ UNCHANGED elsewhere

QueueAudioAcceptKeepsIdWhilePlaying(t) ==
    /\ cpc[t] = "idle"
    /\ nextId < MaxRequests
    /\ nextId' = nextId + 1
    /\ cid' = [cid EXCEPT ![t] = nextId + 1]
    /\ current_playback_id' =
           IF is_playing THEN current_playback_id ELSE nextId + 1
    /\ cpc' = [cpc EXCEPT ![t] = "qa_flag"]
    /\ cop' = [cop EXCEPT ![t] = "queue_audio"]
    /\ scenario' = OnlyScenario(t, ScenarioAtCall(t))
    /\ UNCHANGED <<audio_queue, is_playing, stop_requested, workerVars,
                   nShutdown, history>>
    /\ UNCHANGED elsewhere

QueueAudioAccept(t) ==
    /\ cpc[t] = "idle"
    /\ nextId < MaxRequests
    /\ nextId' = nextId + 1
    /\ cid' = [cid EXCEPT ![t] = nextId + 1]
    /\ current_playback_id' = nextId + 1
    /\ cpc' = [cpc EXCEPT ![t] = "qa_flag"]
    /\ cop' = [cop EXCEPT ![t] = "queue_audio"]
    /\ scenario' = OnlyScenario(t, ScenarioAtCall(t))
    /\ UNCHANGED <<audio_queue, is_playing, stop_requested, workerVars,
                   nShutdown, history>>
    /\ UNCHANGED elsewhere

\* line 101, left operand: not self.is_playing
QueueAudioFlagIgnoresPlaying(t) ==
    /\ cpc[t] = "qa_flag"
    /\ cpc' = [cpc EXCEPT ![t] = "qa_empty"]
    /\ scenario' = OnlyScenario(t, scenario[t])
    /\ UNCHANGED <<shared, workerVars, cop, cid, counters, history>>
    /\ UNCHANGED elsewhere

QueueAudioFlag(t) ==
    /\ cpc[t] = "qa_flag"
    /\ cpc' = [cpc EXCEPT ![t] = IF is_playing THEN "qa_put" ELSE "qa_empty"]
    /\ scenario' = OnlyScenario(t, scenario[t])
    /\ UNCHANGED <<shared, workerVars, cop, cid, counters, history>>
    /\ UNCHANGED elsewhere

\* line 101, right operand: not self.audio_queue.empty(); line 103 calls
\* clear_pending when the queue is not empty
QueueAudioEmptyNeverClears(t) ==
    /\ cpc[t] = "qa_empty"
    /\ cpc' = [cpc EXCEPT ![t] = "qa_put"]
    /\ scenario' = OnlyScenario(t, scenario[t])
    /\ UNCHANGED <<shared, workerVars, cop, cid, counters, history>>
    /\ UNCHANGED elsewhere

QueueAudioEmpty(t) ==
    /\ cpc[t] = "qa_empty"
    /\ cpc' = [cpc EXCEPT ![t] =
                 IF audio_queue # <<>> THEN "cl_test" ELSE "qa_put"]
    /\ scenario' = OnlyScenario(t, scenario[t])
    /\ UNCHANGED <<shared, workerVars, cop, cid, counters, history>>
    /\ UNCHANGED elsewhere

\* where clear_pending returns to: line 107 of queue_audio, or its caller
AfterClear(t) == IF cop[t] = "queue_audio" THEN "qa_put" ELSE "cl_ret"

\* line 116: while not self.audio_queue.empty()
ClearTest(t) ==
    /\ cpc[t] = "cl_test"
    /\ cpc' = [cpc EXCEPT ![t] =
                 IF audio_queue # <<>> THEN "cl_get" ELSE AfterClear(t)]
    /\ scenario' = OnlyScenario(t, scenario[t])
    /\ UNCHANGED <<shared, workerVars, cop, cid, counters, history>>
    /\ UNCHANGED elsewhere

\* lines 117-121: self.audio_queue.get_nowait(); Empty (the worker took the
\* item in between) breaks the loop
ClearGetOnce(t) ==
    /\ cpc[t] = "cl_get"
    /\ IF audio_queue # <<>>
       THEN /\ audio_queue' = Tail(audio_queue)
            /\ dropped' = dropped \cup {Head(audio_queue)}
       ELSE UNCHANGED <<audio_queue, dropped>>
    /\ cpc' = [cpc EXCEPT ![t] = AfterClear(t)]
    /\ scenario' = OnlyScenario(t, scenario[t])
    /\ UNCHANGED <<is_playing, current_playback_id, stop_requested,
                   workerVars, cop, cid, counters, enqueued, played,
                   clearCalled, wstale>>
    /\ UNCHANGED elsewhere

ClearGet(t) ==
    /\ cpc[t] = "cl_get"
    /\ IF audio_queue # <<>>
       THEN /\ audio_queue' = Tail(audio_queue)
            /\ dropped' = dropped \cup {Head(audio_queue)}
            /\ cpc' = [cpc EXCEPT ![t] = "cl_test"]
       ELSE /\ cpc' = [cpc EXCEPT ![t] = AfterClear(t)]
            /\ UNCHANGED <<audio_queue, dropped>>
    /\ scenario' = OnlyScenario(t, scenario[t])
    /\ UNCHANGED <<is_playing, current_playback_id, stop_requested,
                   workerVars, cop, cid, counters, enqueued, played, clearCalled,
                   wstale>>
    /\ UNCHANGED elsewhere

\* line 108: self.audio_queue.put((audio_file, volume, playback_id))
QueueAudioPut(t) ==
    /\ cpc[t] = "qa_put"
    /\ audio_queue' = Append(audio_queue, cid[t])
    /\ enqueued' = Append(enqueued, cid[t])
    /\ cpc' = [cpc EXCEPT ![t] = "qa_ret"]
    /\ scenario' = PutScenario(t, scenario[t])
    /\ UNCHANGED <<is_playing, current_playback_id, stop_requested,
                   workerVars, cop, cid, counters, played, dropped,
                   clearCalled, wstale>>
    /\ UNCHANGED elsewhere

\* lines 91, 111: queue_audio returns (False from "qa_false", True from
\* "qa_ret")
QueueAudioReturn(t) ==
    /\ cpc[t] \in {"qa_false", "qa_ret"}
    /\ cpc' = [cpc EXCEPT ![t] = "idle"]
    /\ cop' = [cop EXCEPT ![t] = "none"]
    /\ cid' = [cid EXCEPT ![t] = None]
    /\ scenario' = OnlyScenario(t, "none")
    /\ UNCHANGED <<shared, workerVars, counters, history>>
    /\ UNCHANGED elsewhere

(* ----------------------------------------------- callers: clear_pending *)
\* line 113: clear_pending called from outside (AudioPlayer.clear_queue)
ClearPending(t) ==
    /\ cpc[t] = "idle"
    /\ clearCalled' = TRUE
    /\ cpc' = [cpc EXCEPT ![t] = "cl_test"]
    /\ cop' = [cop EXCEPT ![t] = "clear_pending"]
    /\ scenario' = OnlyScenario(t, "clear_quiet")
    /\ UNCHANGED <<shared, workerVars, cid, counters, enqueued, played,
                   dropped, wstale>>
    /\ UNCHANGED elsewhere

\* lines 123-124: clear_pending returns
ClearReturn(t) ==
    /\ cpc[t] = "cl_ret"
    /\ cpc' = [cpc EXCEPT ![t] = "idle"]
    /\ cop' = [cop EXCEPT ![t] = "none"]
    /\ scenario' = OnlyScenario(t, "none")
    /\ UNCHANGED <<shared, workerVars, cid, counters, history>>
    /\ UNCHANGED elsewhere

(* ---------------------------------------------------- callers: shutdown *)
\* lines 134-137: self.stop_requested = True
ShutdownResetsPlaying(t) ==
    /\ cpc[t] = "idle"
    /\ nShutdown < MaxShutdowns
    /\ nShutdown' = nShutdown + 1
    /\ stop_requested' = TRUE
    /\ is_playing' = FALSE
    /\ cpc' = [cpc EXCEPT ![t] = "sh_signal"]
    /\ cop' = [cop EXCEPT ![t] = "shutdown"]
    /\ scenario' = OnlyScenario(t, "none")
    /\ UNCHANGED <<audio_queue, current_playback_id, workerVars,
                   cid, nextId, history>>
    /\ UNCHANGED elsewhere

Shutdown(t) ==
    /\ cpc[t] = "idle"
    /\ nShutdown < MaxShutdowns
    /\ nShutdown' = nShutdown + 1
    /\ stop_requested' = TRUE
    /\ cpc' = [cpc EXCEPT ![t] = "sh_signal"]
    /\ cop' = [cop EXCEPT ![t] = "shutdown"]
    /\ scenario' = OnlyScenario(t, "none")
    /\ UNCHANGED <<audio_queue, is_playing, current_playback_id, workerVars,
                   cid, nextId, history>>
    /\ UNCHANGED elsewhere

\* lines 140-144: if the worker thread is alive, put(None) (the shutdown
\* signal) and join(timeout=2), which returns with the thread dead or not
ShutdownSignal(t) ==
    /\ cpc[t] = "sh_signal"
    /\ audio_queue' =
          IF \E w \in QueueThreads : wpc[w] # "stopped"
          THEN Append(audio_queue, None) ELSE audio_queue
    /\ cpc' = [cpc EXCEPT ![t] = "idle"]
    /\ cop' = [cop EXCEPT ![t] = "none"]
    /\ scenario' = OnlyScenario(t, "none")
    /\ UNCHANGED <<is_playing, current_playback_id, stop_requested,
                   workerVars, cid, counters, history>>
    /\ UNCHANGED elsewhere

CallerStep(t) ==
    \/ QueueAudioMissing(t)
    \/ QueueAudioAccept(t)
    \/ QueueAudioFlag(t)
    \/ QueueAudioEmpty(t)
    \/ ClearTest(t)
    \/ ClearGet(t)
    \/ QueueAudioPut(t)
    \/ QueueAudioReturn(t)
    \/ ClearPending(t)
    \/ ClearReturn(t)
    \/ Shutdown(t)
    \/ ShutdownSignal(t)

WorkerNext == \E w \in QueueThreads : WorkerStep(w)
CallerNext == \E t \in Callers : CallerStep(t)

Next == WorkerNext \/ CallerNext

Spec == Init /\ [][Next]_vars

\* The worker thread keeps running (the interpreter schedules it) and the
\* playback callback returns (the backends are synchronous with a timeout).
FairSpec == Spec /\ \A w \in QueueThreads : WF_vars(WorkerStep(w))

TypeOK ==
    /\ audio_queue \in Seq(0..MaxRequests)
    /\ is_playing \in BOOLEAN
    /\ current_playback_id \in 0..MaxRequests
    /\ stop_requested \in BOOLEAN
    /\ \A w \in QueueThreads :
          /\ wpc[w] \in {"loop", "get", "got", "start", "playing", "finish",
                         "stopped"}
          /\ witem[w] \in 0..MaxRequests
          /\ success[w] \in {"unset", "True", "False"}
    /\ \A t \in Callers :
          /\ cpc[t] \in {"idle", "qa_false", "qa_flag", "qa_empty", "cl_test",
                         "cl_get", "qa_put", "qa_ret", "cl_ret", "sh_signal"}
          /\ scenario[t] \in AllScenarios \cup {"none"}

(* ================================================================== *)
(* tts_service/radio_effects_processor.py: RadioEffectsProcessor.         *)
(*                                                                        *)
(* apply_radio_effects is sequential code; a step of the model is one     *)
(* statement of its body (one stage of the chain).  A sample is a         *)
(* rational number <<n, d>> in lowest terms with d > 0, a buffer a        *)
(* sequence of samples; the code computes in float64, whose rounding      *)
(* errors are not modelled.  The chain is computed exactly for buffers of *)
(* fewer than 100 samples (the spectral stage copies them, the transfer   *)
(* stage only quantizes them) and for silent buffers of any length (every *)
(* stage maps silence to silence); other buffers are not inputs of the    *)
(* model.  The environment decides at the start of a behaviour which      *)
(* statement, if any, raises an exception (raises).                       *)
(* ================================================================== *)

(* ---------------------------------------------------------------- bounds *)
\* samples of a short input buffer
MaxSamples == 2
\* applications of apply_radio_effects in one behaviour, each to the
\* output of the one before
MaxApplications == 2

(* ------------------------------------------------------------- constants *)
\* line 84: if len(processed) < 100 (spectral stage)
MinEqSamples == 100
\* line 156: if len(processed) < 100 (transfer stage)
MinTransferSamples == 100
\* sf.write stores a .wav as 16-bit PCM: code = lrint(x * 0x7FFF)
PcmWriteScale == 32767
\* sf.read returns a 16-bit PCM code k as k / 0x8000
PcmReadScale == 32768

\* effect_strength in tenths: 0.0, 0.1, ..., 1.0
Strengths == 0..10
\* sample rates of the input files
SampleRates == {20, 100}
\* the statements of apply_radio_effects that can raise
Statements == {"read", "eq", "transfer", "beep", "normalize", "write"}

(* ------------------------------------------------------------- rationals *)
Abs(x) == IF x < 0 THEN -x ELSE x

RECURSIVE GCD(_, _)
GCD(a, b) == IF b = 0 THEN a ELSE GCD(b, a % b)

\* the sample n/d (d > 0) in lowest terms
Rat(n, d) == LET g == GCD(Abs(n), d) IN <<n \div g, d \div g>>

Zero == <<0, 1>>
RatAbs(x) == <<Abs(x[1]), x[2]>>
RatLeq(x, y) == x[1] * y[2] <= y[1] * x[2]
RatTimes(x, y) == Rat(x[1] * y[1], x[2] * y[2])

\* <<q, r>> with n * m = q * d + r and 0 <= r < d, for n, m >= 0 and d > 0,
\* computed without forming the product n * m
RECURSIVE MulDiv(_, _, _)
MulDiv(n, m, d) ==
    IF m = 0 THEN <<0, 0>>
    ELSE LET h == MulDiv(n, m \div 2, d)
             r == 2 * h[2] + (IF m % 2 = 1 THEN n % d ELSE 0)
             q == 2 * h[1] + (IF m % 2 = 1 THEN n \div d ELSE 0)
         IN  <<q + r \div d, r % d>>

\* q + r/d rounded to the nearest integer, ties to the even one (np.round,
\* lrint)
RoundHalfEven(q, r, d) ==
    IF 2 * r < d THEN q
    ELSE IF 2 * r > d THEN q + 1
    ELSE IF q % 2 = 0 THEN q ELSE q + 1

\* np.round(x * m) for a sample x and an integer m > 0
RoundScaled(x, m) ==
    LET h == MulDiv(Abs(x[1]), m, x[2])
        a == RoundHalfEven(h[1], h[2], x[2])
    IN  IF x[1] < 0 THEN -a ELSE a

Silence(n) == [i \in 1..n |-> Zero]
IsSilent(buf) == \A i \in DOMAIN buf : buf[i] = Zero

\* np.max(np.abs(buf)) of a non-empty buffer
PeakOf(buf) ==
    LET i == CHOOSE j \in DOMAIN buf :
                 \A k \in DOMAIN buf : RatLeq(RatAbs(buf[k]), RatAbs(buf[j]))
    IN  RatAbs(buf[i])

(* ---------------------------------------------------------------- inputs *)
\* sample values sf.read may return
SampleValues == {Zero, <<1, 2>>, <<-1, 1>>, <<3, 10>>}
\* the input buffers: every short buffer, and one silent buffer long enough
\* for the full spectral and transfer stages
InputBuffers ==
    UNION {[1..k -> SampleValues] : k \in 0..MaxSamples}
        \cup {Silence(MinEqSamples)}
\* what decoding the pda_beep.mp3 asset gives, before its attenuation
AssetBeeps == {<< <<1, 1>> >>, << <<1, 2>>, <<-1, 1>>, Zero >>, << Zero >>}
\* self.pda_beep_file is None ("fallback"), or names an asset that ffmpeg
\* converts ("asset") or fails to convert ("asset_unusable")
PdaBeeps ==
    {[kind |-> "fallback", data |-> <<>>],
     [kind |-> "asset_unusable", data |-> <<>>]}
        \cup {[kind |-> "asset", data |-> b] : b \in AssetBeeps}

(* ------------------------------------------------- _apply_telephone_eq *)
\* lines 88-150 on a silent buffer: the FFT of silence is 0, every gain
\* multiplies it, the inverse FFT of 0 is silence
SpectralShapeOfSilence(buf) == Silence(Len(buf))

\* the stage without its length guard: every buffer goes through the FFT
\* (in the terms of this model: comes out as the shaping of silence)
ApplyTelephoneEqNoGuard(buf, rate, strength) == SpectralShapeOfSilence(buf)

\* lines 81-86: processed = audio_data.copy(); a buffer of fewer than 100
\* samples is returned as copied
ApplyTelephoneEq(buf, rate, strength) ==
    IF Len(buf) < MinEqSamples THEN buf ELSE SpectralShapeOfSilence(buf)

(* ------------------------------------- _apply_digital_transfer_effects *)
\* strength is in tenths: strength * 2 is (2 * strength) / 10.
\* With the nearest integer to strength * 2 instead of its integer part:
BitDepthRounded(strength) ==
    15 - RoundHalfEven((2 * strength) \div 10, (2 * strength) % 10, 10)

\* line 159: bit_depth = 15 - int(strength * 2); int truncates
ShortPathBitDepth(strength) == 15 - ((2 * strength) \div 10)
\* line 165: bit_depth = 15 - int(strength * 2)
NormalPathBitDepth(strength) == 15 - ((2 * strength) \div 10)

\* lines 160, 166: max_val = 2**(bit_depth-1) - 1
MaxVal(depth) == 2 ^ (depth - 1) - 1

\* lines 161, 167: np.round(processed * max_val) / max_val
Quantize(buf, max_val) ==
    [i \in DOMAIN buf |-> Rat(RoundScaled(buf[i], max_val), max_val)]

\* lines 169-203 on a silent buffer: the convolution, the compression, the
\* tanh saturation, the warmth term and the one-pole filter map 0 to 0
ColorationOfSilence(buf) == Silence(Len(buf))

ApplyDigitalTransferEffects(buf, rate, strength) ==
    IF Len(buf) < MinTransferSamples
    THEN Quantize(buf, MaxVal(ShortPathBitDepth(strength)))
    ELSE ColorationOfSilence(
             Quantize(buf, MaxVal(NormalPathBitDepth(strength))))

\* the bit_depth local the stage computes
BitDepthOf(buf, strength) ==
    IF Len(buf) < MinTransferSamples
    THEN ShortPathBitDepth(strength)
    ELSE NormalPathBitDepth(strength)

(* ------------------------------------------------- _add_pda_start_beep *)
\* line 285: samples = int(duration * sample_rate), duration = 0.18
FallbackBeepSamples(rate) == (18 * rate) \div 100
\* no gap between the beep and the speech
GapSamplesNone(rate) == 0
\* line 216: gap_samples = int(0.05 * sample_rate)
GapSamples(rate) == (5 * rate) \div 100

\* lines 280-307: the generated beep.  Its first sample is sin(0) = 0 and
\* its last one has envelope 0; the samples between (a sine sweep of
\* amplitude 0.35 under the envelope) are not computed: they are taken to
\* alternate between 7/20 and -7/40.
FallbackBeep(rate) ==
    [i \in 1..FallbackBeepSamples(rate) |->
        IF i = 1 \/ i = FallbackBeepSamples(rate) THEN Zero
        ELSE IF i % 2 = 0 THEN <<7, 20>> ELSE <<-7, 40>>]

\* lines 242-278: the decoded asset, beep_data * 0.4
RealPdaBeep(data) == [i \in DOMAIN data |-> RatTimes(data[i], <<2, 5>>)]

\* lines 235-240, 255-257: None when the asset cannot be converted
BeepAvailable == pda_beep.kind # "asset_unusable"
GetPdaStartBeep(rate) ==
    IF pda_beep.kind = "asset" THEN RealPdaBeep(pda_beep.data)
    ELSE FallbackBeep(rate)

\* the speech written first and the beep after the gap
FrameBeepLast(beep, buf, rate) ==
    LET pos == Len(buf) + GapSamples(rate)
    IN  [i \in 1..(Len(beep) + GapSamples(rate) + Len(buf)) |->
            IF i <= Len(buf) THEN buf[i]
            ELSE IF i > pos THEN beep[i - pos]
            ELSE Zero]

\* lines 216-230: np.zeros(total_samples), the beep at [0 : len(beep)], the
\* audio at [pos : pos + len(audio)] with pos = len(beep) + gap_samples
Frame(beep, buf, rate) ==
    LET pos == Len(beep) + GapSamples(rate)
        total_samples == Len(beep) + GapSamples(rate) + Len(buf)
    IN  [i \in 1..total_samples |->
            IF i <= Len(beep) THEN beep[i]
            ELSE IF i > pos THEN buf[i - pos]
            ELSE Zero]

(* ----------------------------------------------------- _normalize_audio *)
NormalizeAudioNoScaling(buf, target_peak) == buf

\* lines 315-318: audio_data * (target_peak / peak) if peak > 0
NormalizeAudio(buf, target_peak) ==
    LET peak == PeakOf(buf)
    IN  IF peak[1] > 0
        THEN [i \in DOMAIN buf |->
                 Rat(buf[i][1] * target_peak[1] * peak[2],
                     buf[i][2] * target_peak[2] * peak[1])]
        ELSE buf

\* line 66: target_peak=0.8
TargetPeak == <<4, 5>>

(* --------------------------------------------------- sf.write, sf.read *)
\* line 70: the 16-bit PCM codes sf.write stores
WavWrite(buf) == [i \in DOMAIN buf |-> RoundScaled(buf[i], PcmWriteScale)]
\* line 48: the samples sf.read returns for stored codes
WavRead(codes) == [i \in DOMAIN codes |-> Rat(codes[i], PcmReadScale)]

(* ------------------------------------------------ apply_radio_effects *)
\* an apply_radio_effects(input_file, effect_strength) call on some input
\* file, strength, beep asset and fault, the queue left as constructed
EffectsInit ==
    /\ QueueInit
    /\ VoiceIdle
    /\ OthersIdle
    /\ fxpc = "call"
    /\ \E e \in BOOLEAN, b \in InputBuffers, r \in SampleRates :
           input_file = [exists |-> e, samples |-> b, rate |-> r]
    /\ effect_strength \in Strengths
    /\ pda_beep \in PdaBeeps
    /\ raises \in Statements \cup {"nothing"}
    /\ audio_data = <<>>
    /\ sample_rate = 0
    /\ eq_processed = <<>>
    /\ processed_audio = <<>>
    /\ final_audio = <<>>
    /\ bit_depth = 0
    /\ output_file = <<>>
    /\ result = "pending"
    /\ applications = 1
    /\ first_output = <<>>

queueVars == <<shared, workerVars, callerVars, counters, history, scenario>>
\* the state apply_radio_effects never touches
outsideEffects == <<queueVars, voiceVars, otherVars>>
inputs == <<input_file, effect_strength, pda_beep, raises, applications>>
buffers == <<audio_data, sample_rate, eq_processed, processed_audio,
             final_audio, bit_depth, output_file, first_output>>

\* what the call evaluates to when a statement of the try block raises
OnExceptionPropagate == "raised"
\* lines 75-77: except Exception: return input_file
OnException == "input_file"

ProcessingFailed ==
    /\ result' = OnException
    /\ fxpc' = "returned"

\* a missing input file is handed back like a failed processing
ApplyMissingInputReturnsInput ==
    /\ fxpc = "call"
    /\ ~input_file.exists
    /\ result' = "input_file"
    /\ fxpc' = "returned"
    /\ UNCHANGED <<outsideEffects, inputs, buffers>>

\* lines 41-42: if not input_file.exists(): return None
ApplyMissingInput ==
    /\ fxpc = "call"
    /\ ~input_file.exists
    /\ result' = "None"
    /\ fxpc' = "returned"
    /\ UNCHANGED <<outsideEffects, inputs, buffers>>

\* lines 47-54: audio_data, sample_rate = sf.read(input_file)
ApplyRead ==
    /\ fxpc = "call"
    /\ input_file.exists
    /\ IF raises = "read"
       THEN /\ ProcessingFailed
            /\ UNCHANGED <<audio_data, sample_rate>>
       ELSE /\ audio_data' = input_file.samples
            /\ sample_rate' = input_file.rate
            /\ fxpc' = "eq"
            /\ UNCHANGED result
    /\ UNCHANGED <<outsideEffects, inputs, eq_processed, processed_audio,
                   final_audio, bit_depth, output_file, first_output>>

\* line 57: eq_processed = self._apply_telephone_eq(...)
ApplyEq ==
    /\ fxpc = "eq"
    /\ IF raises = "eq"
       THEN /\ ProcessingFailed
            /\ UNCHANGED eq_processed
       ELSE /\ eq_processed' =
                   ApplyTelephoneEq(audio_data, sample_rate, effect_strength)
            /\ fxpc' = "transfer"
            /\ UNCHANGED result
    /\ UNCHANGED <<outsideEffects, inputs, audio_data, sample_rate,
                   processed_audio, final_audio, bit_depth, output_file,
                   first_output>>

\* line 60: processed_audio = self._apply_digital_transfer_effects(...)
ApplyTransfer ==
    /\ fxpc = "transfer"
    /\ IF raises = "transfer"
       THEN /\ ProcessingFailed
            /\ UNCHANGED <<processed_audio, bit_depth>>
       ELSE /\ processed_audio' =
                   ApplyDigitalTransferEffects(eq_processed, sample_rate,
                                               effect_strength)
            /\ bit_depth' = BitDepthOf(eq_processed, effect_strength)
            /\ fxpc' = "beep"
            /\ UNCHANGED result
    /\ UNCHANGED <<outsideEffects, inputs, audio_data, sample_rate, eq_processed,
                   final_audio, output_file, first_output>>

\* an exception in the beep stage reaches the handler of lines 75-77
ApplyBeepUncaught ==
    /\ fxpc = "beep"
    /\ IF raises = "beep"
       THEN /\ ProcessingFailed
            /\ UNCHANGED final_audio
       ELSE /\ final_audio' =
                   IF BeepAvailable
                   THEN Frame(GetPdaStartBeep(sample_rate), processed_audio,
                              sample_rate)
                   ELSE processed_audio
            /\ fxpc' = "normalize"
            /\ UNCHANGED result
    /\ UNCHANGED <<outsideEffects, inputs, audio_data, sample_rate, eq_processed,
                   processed_audio, bit_depth, output_file, first_output>>

\* line 63: final_audio = self._add_pda_start_beep(processed_audio, ...);
\* lines 209-233: without a beep, or when framing raises, the audio is
\* returned as it came
ApplyBeep ==
    /\ fxpc = "beep"
    /\ final_audio' =
           IF raises # "beep" /\ BeepAvailable
           THEN Frame(GetPdaStartBeep(sample_rate), processed_audio,
                      sample_rate)
           ELSE processed_audio
    /\ fxpc' = "normalize"
    /\ UNCHANGED <<outsideEffects, inputs, audio_data, sample_rate, eq_processed,
                   processed_audio, bit_depth, output_file, result,
                   first_output>>

\* line 66: final_audio = self._normalize_audio(final_audio, 0.8); np.max
\* of an empty array raises ValueError
ApplyNormalize ==
    /\ fxpc = "normalize"
    /\ IF raises = "normalize" \/ final_audio = <<>>
       THEN /\ ProcessingFailed
            /\ UNCHANGED final_audio
       ELSE /\ final_audio' = NormalizeAudio(final_audio, TargetPeak)
            /\ fxpc' = "write"
            /\ UNCHANGED result
    /\ UNCHANGED <<outsideEffects, inputs, audio_data, sample_rate, eq_processed,
                   processed_audio, bit_depth, output_file, first_output>>

\* lines 69-73: sf.write(output_file, final_audio, sample_rate);
\* return output_file
ApplyWrite ==
    /\ fxpc = "write"
    /\ IF raises = "write"
       THEN /\ ProcessingFailed
            /\ UNCHANGED <<output_file, first_output>>
       ELSE /\ output_file' = WavWrite(final_audio)
            /\ first_output' = IF applications = 1
                               THEN WavWrite(final_audio) ELSE first_output
            /\ result' = "output_file"
            /\ fxpc' = "returned"
    /\ UNCHANGED <<outsideEffects, inputs, audio_data, sample_rate, eq_processed,
                   processed_audio, final_audio, bit_depth>>

\* the caller applies apply_radio_effects to the file it got back (an
\* output short enough for the model's exact chain)
ApplyAgain ==
    /\ fxpc = "returned"
    /\ result = "output_file"
    /\ applications < MaxApplications
    /\ Len(output_file) < MinEqSamples
    /\ input_file' = [exists |-> TRUE, samples |-> WavRead(output_file),
                      rate |-> sample_rate]
    /\ applications' = applications + 1
    /\ fxpc' = "call"
    /\ result' = "pending"
    /\ UNCHANGED <<outsideEffects, effect_strength, pda_beep, raises, buffers>>

EffectsNext ==
    \/ ApplyMissingInput
    \/ ApplyRead
    \/ ApplyEq
    \/ ApplyTransfer
    \/ ApplyBeep
    \/ ApplyNormalize
    \/ ApplyWrite
    \/ ApplyAgain

EffectsSpec == EffectsInit /\ [][EffectsNext]_vars

EffectsTypeOK ==
    /\ fxpc \in {"idle", "call", "eq", "transfer", "beep", "normalize",
                 "write", "returned"}
    /\ result \in {"pending", "None", "input_file", "output_file"}
    /\ bit_depth \in {0} \cup 13..15
    /\ applications \in 0..MaxApplications

(* ================================================================== *)
(* tts_service/voice_file_manager.py: VoiceFileManager.                   *)
(*                                                                        *)
(* A step is one get_voice_file_for_character call, one construction of   *)
(* a new manager on the same cache directory, or a change of the voices   *)
(* directory made from outside.                                           *)
(* ================================================================== *)
\* a manager constructed on an empty cache directory, over any content of
\* the voices directory
VoiceInit ==
    /\ QueueInit
    /\ EffectsIdle
    /\ OthersIdle
    /\ character_voices = [k \in CharacterKeys |-> NoVoice]
    /\ character_voices_file = [k \in CharacterKeys |-> NoVoice]
    /\ voice_files \in SUBSET AllVoiceFiles
    /\ last_info = [name |-> "Unknown", faction |-> "freedom"]
    /\ last_voice = NoVoice
    /\ returned_for = [k \in CharacterKeys |-> NoVoice]

\* the state VoiceFileManager never touches
outsideVoice == <<queueVars, effectsVars, otherVars>>

\* lines 79-103: the files _select_voice_file can return: any wav of the
\* faction's directory (random.choice), else the default voice, else None
SelectVoiceFile(info) ==
    IF FactionVoices(info.faction) \cap voice_files # {}
    THEN FactionVoices(info.faction) \cap voice_files
    ELSE IF DefaultVoice \in voice_files THEN {DefaultVoice}
    ELSE {NoVoice}

\* the call returns voice; history of what was returned
Returns(info, voice) ==
    /\ last_info' = info
    /\ last_voice' = voice
    /\ returned_for' = IF voice = NoVoice THEN returned_for
                       ELSE [returned_for EXCEPT
                                ![GetCharacterKey(info)] = voice]

\* the cached voice is not looked at: every call selects anew
GetVoiceFileAlwaysSelects(info) ==
    \E voice \in SelectVoiceFile(info) :
        /\ character_voices' =
               [character_voices EXCEPT ![GetCharacterKey(info)] = voice]
        /\ character_voices_file' =
               IF voice = NoVoice THEN character_voices_file
               ELSE character_voices'
        /\ Returns(info, voice)
        /\ UNCHANGED <<outsideVoice, voice_files>>

\* lines 37-58: get_voice_file_for_character(character_info)
GetVoiceFileForCharacter(info) ==
    LET character_key == GetCharacterKey(info)
        cached == character_voices[character_key]
    IN  IF cached # NoVoice /\ cached \in voice_files
        THEN \* lines 42-46: the cached voice, its file still there
             /\ Returns(info, cached)
             /\ UNCHANGED <<outsideVoice, character_voices,
                            character_voices_file, voice_files>>
        ELSE \* lines 47-58: a stale entry is deleted; a voice is selected
             \* and, if there is one, recorded and saved
             \E voice \in SelectVoiceFile(info) :
                 /\ character_voices' =
                        [character_voices EXCEPT ![character_key] = voice]
                 /\ character_voices_file' =
                        IF voice = NoVoice THEN character_voices_file
                        ELSE character_voices'
                 /\ Returns(info, voice)
                 /\ UNCHANGED <<outsideVoice, voice_files>>

\* lines 9-27: a new VoiceFileManager loads character_voices.json
ConstructVoiceFileManager ==
    /\ character_voices # character_voices_file  \* else nothing changes
    /\ character_voices' = character_voices_file
    /\ UNCHANGED <<outsideVoice, character_voices_file, voice_files,
                   last_info, last_voice, returned_for>>

\* a voice file is deleted from, or put into, the voices directory
RemoveVoiceFile(f) ==
    /\ f \in voice_files
    /\ voice_files' = voice_files \ {f}
    /\ UNCHANGED <<outsideVoice, character_voices, character_voices_file,
                   last_info, last_voice, returned_for>>

AddVoiceFile(f) ==
    /\ f \notin voice_files
    /\ voice_files' = voice_files \cup {f}
    /\ UNCHANGED <<outsideVoice, character_voices, character_voices_file,
                   last_info, last_voice, returned_for>>

VoiceNext ==
    \/ \E info \in CharacterInfos : GetVoiceFileForCharacter(info)
    \/ ConstructVoiceFileManager
    \/ \E f \in AllVoiceFiles : RemoveVoiceFile(f)
    \/ \E f \in AllVoiceFiles : AddVoiceFile(f)

VoiceSpec == VoiceInit /\ [][VoiceNext]_vars

VoiceTypeOK ==
    /\ character_voices \in [CharacterKeys -> AllVoiceFiles \cup {NoVoice}]
    /\ character_voices_file \in
           [CharacterKeys -> AllVoiceFiles \cup {NoVoice}]
    /\ voice_files \subseteq AllVoiceFiles
    /\ last_info \in CharacterInfos
    /\ last_voice \in AllVoiceFiles \cup {NoVoice}

(* ------------------------------------------------------------ helpers *)
Requests == 1..MaxRequests
InFlight == {witem[w] : w \in QueueThreads} \ {None}
Pending == Range(audio_queue) \ {None}
AllIdle == \A t \in Callers : cpc[t] = "idle"
\* the position of x in the sequence s (x occurs in s)
Pos(s, x) == CHOOSE i \in DOMAIN s : s[i] = x

(* ================================================================ C1 *)
\* C1: at most one invocation of the playback callback is in progress in
\* every reachable state, whatever queue_audio, clear_pending and shutdown
\* calls the caller threads interleave.
C1_AtMostOnePlayback ==
    Cardinality({w \in QueueThreads : wpc[w] = "playing"}) <= 1

\* a playback is in progress while a request is pending and a caller is
\* inside a call
C1_Witness ==
    /\ \E w \in QueueThreads : wpc[w] = "playing"
    /\ Pending # {}
    /\ \E t \in Callers : cpc[t] # "idle"

(* ================================================================ C2 *)
\* C2: a request whose identifier differed from current_playback_id when
\* the worker dequeued it (it was superseded before it was dequeued) is
\* never passed to the playback callback: the worker never reaches the
\* playback with such an item, and no such item is in the played sequence
\* while the worker still remembers it.
C2_NoStalePlayback ==
    \A w \in QueueThreads :
        wstale[w] =>
            /\ wpc[w] \notin {"start", "playing", "finish"}
            /\ witem[w] # None => witem[w] \notin Range(played)

\* the worker dequeued a superseded request, dropped it and went on
C2_Witness ==
    \E w \in QueueThreads :
        /\ wstale[w]
        /\ wpc[w] = "loop"
        /\ witem[w] = None
        /\ played # <<>>

(* ================================================================ C3 *)
\* C3: with only queue_audio calls (no clear_pending, no shutdown), once
\* all submits have returned the most recently accepted request, whose id
\* is current_playback_id, is pending, in flight or has been played; and
\* every request taken off the queue without being played had been
\* superseded (is not the current one).
C3_CurrentRequestSurvives ==
    (/\ ~clearCalled
     /\ nShutdown = 0
     /\ AllIdle
     /\ current_playback_id # None)
    => current_playback_id \in Pending \cup InFlight \cup Range(played)

(* ================================================================ C4 *)
\* C4: queue_audio on a file that does not exist returns False and changes
\* nothing: current_playback_id, the queue, is_playing and stop_requested
\* keep their values and no playback id is generated, both in the step
\* that rejects the file and in the return.
C4_MissingFileNoMutation ==
    [][\A t \in Callers :
          (\/ (cpc[t] = "idle" /\ cpc'[t] = "qa_false")
           \/ (cpc[t] = "qa_false" /\ cpc'[t] = "idle"))
          => UNCHANGED <<current_playback_id, audio_queue, is_playing,
                         stop_requested, nextId, enqueued>>]_vars

\* a call on a missing file is returning False while a request is pending
C4_Witness ==
    \E t \in Callers :
        /\ cpc[t] = "qa_false"
        /\ Pending # {}
        /\ current_playback_id # None

(* ================================================================ C5 *)
\* C5: when queue_audio(B) is called while nothing is playing and a request
\* is still pending, and the worker neither dequeues nor starts a playback
\* and no other caller acts during the call, then at its return the queue
\* holds exactly B.
C5_IdleSubmitEvictsBacklog ==
    \A t \in Callers :
        (cpc[t] = "qa_ret" /\ scenario[t] = "idle_backlog")
        => audio_queue = <<cid[t]>>

C5_Witness ==
    \E t \in Callers :
        /\ cpc[t] = "qa_ret"
        /\ scenario[t] = "idle_backlog"
        /\ dropped # {}

(* ================================================================ C6 *)
\* C6: a queue_audio(B) call made while the callback for A is executing
\* (and not overlapping another caller's step) does not touch the worker:
\* no step of a caller changes the worker's position, its item or
\* is_playing, so A's callback runs to completion; the call removes nothing
\* from the queue, it only appends B; when it returns A is still in flight
\* and B is queued behind it, not yet played; and B is then passed to the
\* callback unless a later request supersedes it, clear_pending is called
\* or the queue is shut down.
C6_CallerFrame ==
    CallerNext => UNCHANGED <<wpc, witem, success, is_playing>>

C6_OnlyAppends ==
    \A t \in Callers :
        (scenario[t] = "in_play" /\ cpc'[t] # cpc[t])
        => \/ audio_queue' = audio_queue
           \/ audio_queue' = Append(audio_queue, cid[t])

C6_QueuedBehind ==
    \A t \in Callers :
        (cpc[t] = "qa_ret" /\ scenario[t] = "in_play")
        => /\ \E w \in QueueThreads :
                 wpc[w] = "playing" /\ witem[w] # cid[t]
           /\ audio_queue # <<>>
           /\ audio_queue[Len(audio_queue)] = cid[t]
           /\ cid[t] \notin Range(played)

C6_PlayedAfter(b) ==
    (\E t \in Callers :
        cpc[t] = "qa_ret" /\ scenario[t] = "in_play" /\ cid[t] = b)
    ~> \/ b \in Range(played)
       \/ current_playback_id # b
       \/ clearCalled
       \/ stop_requested

\* C6: submitting while A plays leaves the worker and the queued requests
\* alone, queues B behind A, and B is played after A unless it is
\* superseded, cleared or the queue is shut down.
C6_SubmitWhilePlaying ==
    /\ [][C6_CallerFrame /\ C6_OnlyAppends]_vars
    /\ []C6_QueuedBehind
    /\ \A b \in Requests : C6_PlayedAfter(b)

\* B's submission is returning while A is still playing, and the request
\* that was pending before it is still in the queue
C6_Witness ==
    \E t \in Callers :
        /\ cpc[t] = "qa_ret"
        /\ scenario[t] = "in_play"
        /\ Len(audio_queue) = 2
        /\ Pending = {audio_queue[1], cid[t]}

(* ================================================================ C7 *)
\* C7: the played sequence holds no request twice and lists the requests in
\* the order they were enqueued; every enqueued request that is missing
\* from it was dropped (skipped as stale or cleared) or is still pending or
\* held by the worker.
C7_FifoAmongSurvivors ==
    /\ Range(played) \subseteq Range(enqueued)
    /\ \A i, j \in DOMAIN played :
          i < j => Pos(enqueued, played[i]) < Pos(enqueued, played[j])
    /\ \A id \in Range(enqueued) :
          id \in Range(played) \cup dropped \cup Pending \cup InFlight

\* two requests were played around one that was dropped
C7_Witness ==
    /\ Len(played) = 2
    /\ Len(enqueued) = 3
    /\ enqueued[2] \in dropped
    /\ played = <<enqueued[1], enqueued[3]>>

(* ================================================================ C8 *)
\* C8: clear_pending leaves is_playing, current_playback_id and the
\* worker (so the callback in progress) as they are in every step it
\* takes, and when it returns with no queue_audio put made meanwhile no
\* request is pending.
C8_ClearFrame ==
    \A t \in Callers :
        (cop[t] = "clear_pending" /\ cpc'[t] # cpc[t])
        => UNCHANGED <<is_playing, current_playback_id, stop_requested,
                       wpc, witem, success, played>>

C9_ExitAtLoopTest ==
    \A w \in QueueThreads :
        (stop_requested /\ wpc[w] = "loop" /\ wpc'[w] # "loop")
        => wpc'[w] = "stopped"

\* C9: after shutdown() the worker exits at its next loop test and does
\* eventually exit, sentinel or not.
C9_ShutdownStopsWorker ==
    /\ [][C9_ExitAtLoopTest]_vars
    /\ stop_requested ~> (\A w \in QueueThreads : wpc[w] = "stopped")

\* the worker has stopped although clear_pending removed the sentinel, and
\* a request is still pending
C9_Witness ==
    /\ \A w \in QueueThreads : wpc[w] = "stopped"
    /\ None \in dropped
    /\ None \notin Range(audio_queue)
    /\ Pending # {}

(* =============================================================== C10 *)
\* C10: when the callback returns False or raises, the worker goes on to
\* clear is_playing and back to its loop test without touching the queue
\* or current_playback_id, and a request that is current when the worker
\* compares it is passed to the callback also after a failed playback.
C10_ReturnStep ==
    \A w \in QueueThreads :
        (wpc[w] = "playing" /\ wpc'[w] # "playing")
        => /\ wpc'[w] = "finish"
           /\ UNCHANGED <<audio_queue, current_playback_id, is_playing>>

C10_FinishStep ==
    \A w \in QueueThreads :
        (wpc[w] = "finish" /\ wpc'[w] # "finish")
        => /\ wpc'[w] = "loop"
           /\ ~is_playing'
           /\ UNCHANGED <<audio_queue, current_playback_id>>

C10_NextStillPlayed ==
    \A w \in QueueThreads :
        (/\ wpc[w] = "got" /\ wpc'[w] # "got"
         /\ success[w] = "False"
         /\ witem[w] # None
         /\ witem[w] = current_playback_id)
        => wpc'[w] = "start"

\* C10: a failed playback (False or an exception) neither stops the worker
\* nor touches the queue or the current request id, and the next current
\* request is still played.
C10_PlaybackFailureHandled ==
    [][C10_ReturnStep /\ C10_FinishStep /\ C10_NextStillPlayed]_vars

\* a playback is in progress after the previous one failed
C10_Witness ==
    \E w \in QueueThreads :
        /\ wpc[w] = "playing"
        /\ success[w] = "False"
        /\ Len(played) >= 2

(* =============================================================== C11 *)
\* C11: the playing flag brackets every playback: is_playing is True in
\* every state in which the worker is inside the playback callback, and it
\* is False in every state in which the worker is at its loop test, waiting
\* in get, or holding an item it has not started to play, whatever the
\* previous callback returned (True, False or an exception).
C11_PlayingFlagBrackets ==
    \A w \in QueueThreads :
        /\ wpc[w] = "playing" => is_playing
        /\ wpc[w] \in {"loop", "get", "got", "start"} => ~is_playing

\* the worker waits for the next item after a playback that failed
C11_Witness ==
    \E w \in QueueThreads :
        /\ wpc[w] = "get"
        /\ success[w] = "False"
        /\ played # <<>>
        /\ ~is_playing

(* ================================================================== *)
(* Claims about apply_radio_effects, checked under EffectsSpec.           *)
(* ================================================================== *)
\* the application has returned
Returned == fxpc = "returned"
\* a statement of the try block of lines 47-73 raised in this application
\* (the fault of a behaviour is always reached: nothing else raises first,
\* except that an empty buffer makes np.max raise at the normalization)
Raised(stmts) == input_file.exists /\ raises \in stmts

(* =============================================================== C12 *)
\* C12 as stated: apply_radio_effects returns the input reference whenever
\* loading, spectral shaping, transfer emulation, beep framing,
\* normalization or writing raised.
C12_AnyErrorReturnsInput ==
    (Returned /\ Raised(Statements)) => result = "input_file"

\* C12 (amended): apply_radio_effects never propagates an error; when
\* loading, spectral shaping, transfer emulation, normalization or writing
\* raises it returns the input reference and has written no output; when
\* beep framing raises it goes on without the beep and returns the output
\* file (or the input reference when the unframed buffer is empty).
C12_NeverPropagates ==
    /\ result \in {"pending", "None", "input_file", "output_file"}
    /\ (Returned /\ Raised(Statements \ {"beep"}))
           => /\ result = "input_file"
              /\ applications = 1 => output_file = <<>>
    /\ (Returned /\ Raised({"beep"}))
           => IF processed_audio = <<>> THEN result = "input_file"
              ELSE result = "output_file"

\* the write of the output raised and the input reference was returned
C12_Witness ==
    /\ Returned
    /\ Raised({"write"})
    /\ result = "input_file"
    /\ final_audio # <<>>

(* =============================================================== C13 *)
AtMostTarget(buf) == \A i \in DOMAIN buf : RatLeq(RatAbs(buf[i]), TargetPeak)
ReachesTarget(buf) == \E i \in DOMAIN buf : RatAbs(buf[i]) = TargetPeak
\* the first application was given silence and has written its output
SilentInputProcessed ==
    /\ Returned
    /\ result = "output_file"
    /\ applications = 1
    /\ IsSilent(input_file.samples)

\* C13 as stated: the output peak is at most 0.8, and an all-silent input
\* comes back as unchanged silence.
C13_SilentInputUnchanged ==
    /\ (Returned /\ result = "output_file") => AtMostTarget(final_audio)
    /\ SilentInputProcessed => final_audio = input_file.samples

C13_NormalizeStep ==
    (fxpc = "normalize" /\ fxpc' = "write")
    => /\ AtMostTarget(final_audio')
       /\ ~IsSilent(final_audio) => ReachesTarget(final_audio')
       /\ IsSilent(final_audio) => final_audio' = final_audio

C13_Output ==
    /\ (Returned /\ result = "output_file") => AtMostTarget(final_audio)
    /\ SilentInputProcessed =>
          IF raises # "beep" /\ BeepAvailable
          THEN /\ Len(final_audio) = Len(GetPdaStartBeep(sample_rate))
                     + GapSamples(sample_rate) + Len(input_file.samples)
               /\ ~IsSilent(GetPdaStartBeep(sample_rate))
                     => ReachesTarget(final_audio)
          ELSE final_audio = input_file.samples

\* C13 (amended): every sample of the output is at most 0.8 in absolute
\* value, and some sample is exactly 0.8 when the buffer handed to the
\* normalization is not silent; a silent buffer is left as it is.  An
\* all-silent input comes out as silence only when no beep is framed;
\* otherwise it comes out as the beep, the gap and the silence, with peak
\* 0.8 (unless the beep is silent too).
C13_NormalizationPostcondition ==
    []C13_Output /\ [][C13_NormalizeStep]_vars

\* a silent input came out with the beep in front, at peak 0.8
C13_Witness ==
    /\ SilentInputProcessed
    /\ input_file.samples # <<>>
    /\ ReachesTarget(final_audio)
    /\ pda_beep.kind = "fallback"

C15_ShortBufferEqIsNoOp ==
    (/\ fxpc \in {"transfer", "beep", "normalize", "write"}
     /\ Len(audio_data) < 100)
    => /\ eq_processed = audio_data
       /\ audio_data = input_file.samples

\* a short buffer that is not silent has passed the spectral stage
C15_Witness ==
    /\ fxpc = "transfer"
    /\ audio_data # <<>>
    /\ ~IsSilent(audio_data)
    /\ Len(audio_data) < 100
    /\ effect_strength = 10

(* =============================================================== C17 *)
\* C17 as stated: when spectral shaping, transfer emulation or beep
\* synthesis raises, the engine goes on from the last intermediate buffer
\* and writes an output built from it.
C17_ContinuesFromIntermediate ==
    (Returned /\ Raised({"eq", "transfer", "beep"}) /\ audio_data # <<>>)
    => result = "output_file"

\* C17 (amended): only the beep stage catches its own failure: when beep
\* framing raises, the output is the normalized result of the transfer
\* stage, without a beep; when spectral shaping or transfer emulation
\* raises, the handler of the whole chain returns the input reference and
\* no later stage runs.  The caller is never aborted.
C17_OnlyBeepStageCaught ==
    /\ (Returned /\ Raised({"beep"}) /\ processed_audio # <<>>)
           => /\ result = "output_file"
              /\ final_audio = NormalizeAudio(processed_audio, TargetPeak)
    /\ (Returned /\ Raised({"eq", "transfer"}))
           => /\ result = "input_file"
              /\ applications = 1 => final_audio = <<>> /\ output_file = <<>>
    /\ result # "raised"

\* beep framing raised and the unframed transfer result was written
C17_Witness ==
    /\ Returned
    /\ Raised({"beep"})
    /\ BeepAvailable
    /\ result = "output_file"
    /\ Len(final_audio) = Len(processed_audio)
    /\ ~IsSilent(final_audio)

(* =============================================================== C18 *)
\* C18 as stated: a missing or undecodable input file makes
\* apply_radio_effects return the input reference.
C18_UnreadableReturnsInput ==
    (Returned /\ (~input_file.exists \/ raises = "read"))
    => result = "input_file"

\* C18 (amended): for a missing input file apply_radio_effects returns None
\* (which its callers replace by the input file); for a file that exists
\* but cannot be decoded it returns the input reference; in both cases
\* nothing is processed or written.
C18_MissingIsNoneUndecodableIsInput ==
    /\ (Returned /\ ~input_file.exists) => result = "None"
    /\ (Returned /\ Raised({"read"})) => result = "input_file"
    /\ (Returned /\ applications = 1
              /\ (~input_file.exists \/ raises = "read"))
           => audio_data = <<>> /\ output_file = <<>>

\* the call on a missing file has returned None
C18_Witness ==
    /\ Returned
    /\ ~input_file.exists
    /\ result = "None"

(* =============================================================== C19 *)
\* the transfer stage has run in this application
Transferred == fxpc \in {"beep", "normalize", "write"}

\* C19 as stated: the stage quantizes to 15 - round(2 * strength) bits
\* (13 at the default strength 0.8).
C19_DepthRounded ==
    Transferred => bit_depth = BitDepthRounded(effect_strength)

\* C19 (amended): on both paths the stage quantizes to
\* 15 - int(2 * strength) bits, the integer part being taken: 15 for
\* strength below 0.5, 14 from 0.5 up to but not including 1 (so 14 at the
\* default 0.8), 13 at strength 1; the depth lies in 13..15.
C19_DepthTruncated ==
    Transferred
    => /\ bit_depth = 15 - ((2 * effect_strength) \div 10)
       /\ bit_depth \in 13..15
       /\ effect_strength < 5 => bit_depth = 15
       /\ effect_strength \in 5..9 => bit_depth = 14
       /\ effect_strength = 10 => bit_depth = 13

\* the normal path has quantized at the default strength 0.8
C19_Witness ==
    /\ fxpc = "beep"
    /\ effect_strength = 8
    /\ Len(eq_processed) >= 100
    /\ bit_depth = 14

(* =============================================================== C20 *)
C20_FramingStep ==
    (fxpc = "beep" /\ fxpc' = "normalize" /\ BeepAvailable
        /\ raises # "beep")
    => LET beep == GetPdaStartBeep(sample_rate)
           gap == (5 * sample_rate) \div 100
       IN  /\ Len(final_audio') = Len(beep) + gap + Len(processed_audio)
           /\ final_audio' = beep \o [i \in 1..gap |-> Zero]
                                  \o processed_audio
           /\ pda_beep.kind = "fallback"
                  => Len(beep) = (18 * sample_rate) \div 100

\* C20: with a beep available, _add_pda_start_beep returns the beep, then
\* int(0.05 * sample_rate) zero samples, then the speech samples unchanged
\* and in order; the synthesized beep has int(0.18 * sample_rate) samples
\* (4320 and a gap of 1200 at 24 kHz).
C20_BeepFramingLayout ==
    /\ [][C20_FramingStep]_vars
    /\ [](FallbackBeepSamples(24000) = 4320 /\ GapSamples(24000) = 1200)

\* a two-sample speech buffer has been framed with the synthesized beep
C20_Witness ==
    /\ fxpc = "normalize"
    /\ BeepAvailable
    /\ raises # "beep"
    /\ pda_beep.kind = "fallback"
    /\ Len(processed_audio) = 2
    /\ ~IsSilent(processed_audio)
    /\ Len(final_audio) = Len(processed_audio)
           + FallbackBeepSamples(sample_rate) + GapSamples(sample_rate)

(* =============================================================== C16 *)
\* a get_voice_file_for_character call is made in this step
VoiceCall == \E info \in CharacterInfos : GetVoiceFileForCharacter(info)

C16_SecondCallSameVoice ==
    (/\ VoiceCall
     /\ last_info' = last_info
     /\ last_voice # NoVoice
     /\ last_voice \in voice_files)
    => last_voice' = last_voice

C16_CacheIsWhatWasReturned ==
    \A k \in CharacterKeys :
        character_voices[k] # NoVoice => character_voices[k] = returned_for[k]

\* C16: a get_voice_file_for_character call with the same character_info
\* as the call before it returns the same voice file, provided that file
\* still exists, although the first one was picked at random among the
\* faction's files; and in every reachable state every cached key maps to
\* the file that was last returned for it.
C16_VoiceAssignmentPersistent ==
    [][C16_SecondCallSameVoice]_vars /\ []C16_CacheIsWhatWasReturned

\* a duty character holds one of two existing duty voices, returned by the
\* last call
C16_Witness ==
    /\ last_info.faction = "duty"
    /\ last_voice = "duty_2.wav"
    /\ FactionVoices("duty") \subseteq voice_files
    /\ character_voices[GetCharacterKey(last_info)] = last_voice

(* =============================================================== C21 *)
\* the beep C21 expects in front of the output: the attenuated asset when
\* self.pda_beep_file is set, the synthesized beep otherwise and when the
\* asset cannot be decoded
C21_ExpectedBeep ==
    IF pda_beep.kind = "asset" THEN RealPdaBeep(pda_beep.data)
    ELSE FallbackBeep(sample_rate)

\* C21: every output written by an application in which nothing raised
\* starts with the beep (the asset's, or the synthesized one when there is
\* no asset or the asset cannot be decoded), followed by the gap and the
\* processed speech.
C21_OutputStartsWithBeep ==
    (Returned /\ result = "output_file" /\ raises = "nothing")
    => final_audio =
           NormalizeAudio(Frame(C21_ExpectedBeep, processed_audio,
                                sample_rate), TargetPeak)

(* ================================================================== *)
(* audio_player.py, audio_backends.py: AudioPlayer picks a backend when *)
(* it is constructed and hands every dequeued file to the backend's    *)
(* play().  One playback is followed at a time: the queue's worker      *)
(* calls _play_audio_direct for one item and waits for its result.      *)
(* Times are in tenths of a second.  AudioPlayer.shutdown only calls    *)
(* AudioQueue.shutdown; nothing but __init__ and _initialize assigns    *)
(* preferred_backend or audio_queue.                                    *)
(* ================================================================== *)
\* play_audio calls in one behaviour
MaxPlaybacks == 2

\* AudioBackendDetector.__init__: self.backends, in order
Backends == <<"pygame", "wmplayer", "powershell">>
\* what get_audio_duration returns for the files played
Durations == {0, 10}
\* line 79: timeout_duration = duration + 5.0
PygameTimeoutBuffer == 50
\* line 95: time.sleep(0.1) lasts a tenth of a second, or longer when the
\* thread is not scheduled
SleepTenths == {1, 30}

\* PowerShellBackend.test
PowerShellTestFalse == FALSE
PowerShellTest == TRUE

\* backend.test() for the backend of that name
BackendTest(name) ==
    CASE name = "pygame" -> pygame_importable
      [] name = "wmplayer" -> wmplayer_found
      [] name = "powershell" -> PowerShellTest

\* AudioPlayer() on a machine with or without pygame and wmplayer
BackendInit ==
    /\ QueueInit
    /\ EffectsIdle
    /\ VoiceIdle
    /\ RemoteIdle
    /\ GeneratorIdle
    /\ bpc = "detect"
    /\ pygame_importable \in BOOLEAN
    /\ wmplayer_found \in BOOLEAN
    /\ backend_index = 1
    /\ self_pygame = FALSE
    /\ detector_preferred = "None"
    /\ preferred_backend = "None"
    /\ player_audio_queue = "None"
    /\ play_audio_result = "unset"
    /\ timeout_duration = 0
    /\ elapsed = 0
    /\ timed_out = FALSE
    /\ play_result = "unset"
    /\ playbacks = 0

\* the state AudioPlayer and the backends never touch
outsideBackend == <<queueVars, effectsVars, voiceVars, remoteVars,
                    generatorVars>>
environment == <<pygame_importable, wmplayer_found>>
playerFields == <<detector_preferred, preferred_backend, player_audio_queue,
                  self_pygame, backend_index>>
playLocals == <<timeout_duration, elapsed, timed_out>>

\* detect_best_backend, one round of its loop: the backend's test(); the
\* first that succeeds becomes preferred_backend and is returned; after the
\* last, None is returned and preferred_backend is left None
DetectStep ==
    /\ bpc = "detect"
    /\ IF backend_index > Len(Backends)
       THEN /\ bpc' = "initialize"
            /\ UNCHANGED <<backend_index, self_pygame, detector_preferred>>
       ELSE IF BackendTest(Backends[backend_index])
       THEN /\ detector_preferred' = Backends[backend_index]
            /\ self_pygame' = (Backends[backend_index] = "pygame")
            /\ bpc' = "initialize"
            /\ UNCHANGED backend_index
       ELSE /\ backend_index' = backend_index + 1
            /\ UNCHANGED <<bpc, self_pygame, detector_preferred>>
    /\ UNCHANGED <<outsideBackend, environment, preferred_backend,
                   player_audio_queue, play_audio_result, playLocals,
                   play_result, playbacks>>

\* AudioPlayer._initialize after detection (lines 19-26)
Initialize ==
    /\ bpc = "initialize"
    /\ preferred_backend' = detector_preferred
    /\ player_audio_queue' =
           IF detector_preferred = "None" THEN "None" ELSE "AudioQueue"
    /\ bpc' = "ready"
    /\ UNCHANGED <<outsideBackend, environment, backend_index, self_pygame,
                   detector_preferred, play_audio_result, playLocals,
                   play_result, playbacks>>

\* AudioPlayer.play_audio (lines 28-34): False without an AudioQueue, else
\* what queue_audio returns, which is whether the file exists
PlayAudio(file_exists) ==
    /\ bpc = "ready"
    /\ playbacks < MaxPlaybacks
    /\ playbacks' = playbacks + 1
    /\ IF player_audio_queue = "None"
       THEN play_audio_result' = "not_initialized" /\ bpc' = "ready"
       ELSE IF file_exists
       THEN play_audio_result' = "True" /\ bpc' = "queued"
       ELSE play_audio_result' = "False" /\ bpc' = "ready"
    /\ timeout_duration' = 0
    /\ elapsed' = 0
    /\ timed_out' = FALSE
    /\ play_result' = "unset"
    /\ UNCHANGED <<outsideBackend, environment, playerFields>>

\* AudioPlayer._play_audio_direct (lines 36-47), called by the worker
PlayAudioDirect ==
    /\ bpc = "queued"
    /\ IF preferred_backend = "None"
       THEN play_result' = "False" /\ bpc' = "returned"
       ELSE play_result' = play_result /\ bpc' = "play"
    /\ UNCHANGED <<outsideBackend, environment, playerFields,
                   play_audio_result, playLocals, playbacks>>

\* PygameBackend.play up to the loop (lines 73-93): any exception of
\* get_audio_duration, init, load, set_volume or play returns False
PygamePlay(duration, raised) ==
    /\ bpc = "play"
    /\ preferred_backend = "pygame"
    /\ IF ~self_pygame \/ raised
       THEN /\ play_result' = "False"
            /\ bpc' = "returned"
            /\ UNCHANGED playLocals
       ELSE /\ timeout_duration' = duration + PygameTimeoutBuffer
            /\ elapsed' = 0
            /\ bpc' = "loop_test"
            /\ UNCHANGED <<timed_out, play_result>>
    /\ UNCHANGED <<outsideBackend, environment, playerFields,
                   play_audio_result, playbacks>>

\* line 94: while self.pygame.mixer.music.get_busy()
PygameLoopTest(busy) ==
    /\ bpc = "loop_test"
    /\ bpc' = IF busy THEN "sleep" ELSE "completed"
    /\ UNCHANGED <<outsideBackend, environment, playerFields,
                   play_audio_result, playLocals, play_result, playbacks>>

\* lines 95-101: sleep, then on time.time() - start_time > timeout_duration
\* stop the music and leave the loop
PygameSleep(slept) ==
    /\ bpc = "sleep"
    /\ elapsed' = elapsed + slept
    /\ IF elapsed' > timeout_duration
       THEN timed_out' = TRUE /\ bpc' = "completed"
       ELSE timed_out' = timed_out /\ bpc' = "loop_test"
    /\ UNCHANGED <<outsideBackend, environment, playerFields,
                   play_audio_result, timeout_duration, play_result,
                   playbacks>>

\* lines 103-104, reached from the loop's end and from its break
PygameCompleted ==
    /\ bpc = "completed"
    /\ play_result' = "True"
    /\ bpc' = "returned"
    /\ UNCHANGED <<outsideBackend, environment, playerFields,
                   play_audio_result, playLocals, playbacks>>

\* WindowsMediaPlayerBackend.play (lines 126-145): start, sleep for
\* duration + 1.0, return True; False on any exception
WmplayerPlay(raised) ==
    /\ bpc = "play"
    /\ preferred_backend = "wmplayer"
    /\ play_result' = IF raised THEN "False" ELSE "True"
    /\ bpc' = "returned"
    /\ UNCHANGED <<outsideBackend, environment, playerFields,
                   play_audio_result, playLocals, playbacks>>

\* PowerShellBackend.play (lines 155-200): the script plays for
\* duration + 2.0 and stops the player; the result is returncode == 0,
\* False on any exception
PowerShellPlay(returncode_zero, raised) ==
    /\ bpc = "play"
    /\ preferred_backend = "powershell"
    /\ play_result' = IF raised \/ ~returncode_zero THEN "False" ELSE "True"
    /\ bpc' = "returned"
    /\ UNCHANGED <<outsideBackend, environment, playerFields,
                   play_audio_result, playLocals, playbacks>>

\* the worker has the callback's result; the player takes the next call
PlaybackDone ==
    /\ bpc = "returned"
    /\ bpc' = "ready"
    /\ UNCHANGED <<outsideBackend, environment, playerFields,
                   play_audio_result, playLocals, play_result, playbacks>>

BackendNext ==
    \/ DetectStep
    \/ Initialize
    \/ \E file_exists \in BOOLEAN : PlayAudio(file_exists)
    \/ PlayAudioDirect
    \/ \E duration \in Durations, raised \in BOOLEAN :
           PygamePlay(duration, raised)
    \/ \E busy \in BOOLEAN : PygameLoopTest(busy)
    \/ \E slept \in SleepTenths : PygameSleep(slept)
    \/ PygameCompleted
    \/ \E raised \in BOOLEAN : WmplayerPlay(raised)
    \/ \E returncode_zero \in BOOLEAN, raised \in BOOLEAN :
           PowerShellPlay(returncode_zero, raised)
    \/ PlaybackDone

BackendSpec == BackendInit /\ [][BackendNext]_vars

BackendTypeOK ==
    /\ bpc \in {"idle", "detect", "initialize", "ready", "queued", "play",
                "loop_test", "sleep", "completed", "returned"}
    /\ backend_index \in 1..(Len(Backends) + 1)
    /\ detector_preferred \in Range(Backends) \cup {"None"}
    /\ preferred_backend \in Range(Backends) \cup {"None"}
    /\ player_audio_queue \in {"None", "AudioQueue"}
    /\ play_audio_result \in {"unset", "True", "False", "not_initialized"}
    /\ play_result \in {"unset", "True", "False"}
    /\ playbacks \in 0..MaxPlaybacks
    /\ elapsed >= 0

(* =============================================================== C22 *)
\* C22: a playback that exceeded the backend's timeout (the backend
\* stopped it) makes play() return False.
C22_TimeoutReportsFailure ==
    (bpc = "returned" /\ timed_out) => play_result = "False"

(* =============================================================== C28 *)
\* the first backend of pygame, wmplayer, powershell whose test() succeeds
C28_FirstAvailable ==
    IF pygame_importable THEN "pygame"
    ELSE IF wmplayer_found THEN "wmplayer"
    ELSE "powershell"
\* C28: detection returns the first backend whose test succeeds and never
\* None, AudioPlayer has its AudioQueue once constructed, and no play_audio
\* call fails for want of an initialized audio system.
C28_DetectionAlwaysSelects ==
    /\ bpc \notin {"idle", "detect"}
           => detector_preferred = C28_FirstAvailable
    /\ bpc \notin {"idle", "detect", "initialize"}
           => /\ preferred_backend = C28_FirstAvailable
              /\ player_audio_queue = "AudioQueue"
    /\ play_audio_result # "not_initialized"
\* neither pygame nor wmplayer is there, and a play_audio call was queued
C28_Witness ==
    /\ ~pygame_importable
    /\ ~wmplayer_found
    /\ preferred_backend = "powershell"
    /\ play_audio_result = "True"

(* =============================================================== C23 *)
\* the step is one of the worker thread
C23_WorkerStepped == wpc' # wpc
\* the step is one of a caller inside the method op
C23_SteppedIn(op) ==
    \E t \in Callers :
        /\ cpc'[t] # cpc[t]
        /\ (IF cop[t] # "none" THEN cop[t] ELSE cop'[t]) = op
\* C23 as stated: only the worker writes the playing flag, only queue_audio
\* writes the current request id, and the pending sequence is changed by
\* the worker (taking items) and by queue_audio (append, clear) alone:
\* clear_pending called from outside and shutdown write none of them.
C23_SingleWriterDiscipline ==
    [][/\ is_playing' # is_playing => C23_WorkerStepped
       /\ current_playback_id' # current_playback_id
              => C23_SteppedIn("queue_audio")
       /\ audio_queue' # audio_queue
              => C23_WorkerStepped \/ C23_SteppedIn("queue_audio")]_vars
\* C23, amended: the playing flag is written by the worker alone and the
\* current request id by queue_audio alone; playback requests are appended
\* by queue_audio alone; items leave the pending sequence at its head,
\* taken by the worker or removed by clear_pending, whether queue_audio or
\* an outside caller runs it; shutdown appends the None signal and is the
\* only writer of the stop flag.
C23_WritersOfSharedState ==
    [][/\ is_playing' # is_playing => C23_WorkerStepped
       /\ current_playback_id' # current_playback_id
              => C23_SteppedIn("queue_audio")
       /\ stop_requested' # stop_requested => C23_SteppedIn("shutdown")
       /\ audio_queue' # audio_queue
              => \/ /\ audio_queue # <<>>
                    /\ audio_queue' = Tail(audio_queue)
                    /\ \/ C23_WorkerStepped
                       \/ C23_SteppedIn("queue_audio")
                       \/ C23_SteppedIn("clear_pending")
                 \/ /\ C23_SteppedIn("queue_audio")
                    /\ \E id \in 1..MaxRequests :
                           audio_queue' = Append(audio_queue, id)
                 \/ /\ C23_SteppedIn("shutdown")
                    /\ audio_queue' = Append(audio_queue, None)]_vars
\* request 2 was removed by an outside clear_pending call while request 1,
\* the only one the worker ever took, is playing, and shutdown has put its
\* signal
C23_Witness ==
    /\ \E t \in Callers : cop[t] = "clear_pending"
    /\ \A w \in QueueThreads : wpc[w] = "playing"
    /\ played = <<1>>
    /\ nextId = 2
    /\ dropped = {2}
    /\ audio_queue = <<None>>

(* =============================================================== C24 *)
\* every accepted submission overwrites the current request id: it is the
\* id of the request accepted last
C24_CurrentIsLast == nextId > 0 => current_playback_id = nextId
\* a step of a queue_audio call made during the playback removes nothing
C24_BurstKeepsPending ==
    \A t \in Callers :
        (scenario[t] = "in_play" /\ cpc'[t] # cpc[t])
        => Range(audio_queue) \subseteq Range(audio_queue')
\* request b waits behind the playback in flight and a later request has
\* been accepted
C24_Superseded(b) ==
    /\ \E w \in QueueThreads : wpc[w] = "playing"
    /\ b \in Pending
    /\ b < nextId
\* the call that submitted b during the playback is returning, b is the
\* request accepted last, and an earlier request is pending with it
C24_LastOfBurst(b) ==
    \E t \in Callers :
        /\ cpc[t] = "qa_ret"
        /\ scenario[t] = "in_play"
        /\ cid[t] = b
        /\ b = nextId
        /\ Pending \ {b} # {}
\* when a superseded request leaves the pending sequence it is removed by
\* clear_pending or taken by the worker, which finds it stale
C24_TakenStale ==
    \A b \in Requests :
        (b \in Pending /\ b < nextId /\ b \notin Range(audio_queue'))
        => \/ b \in dropped'
           \/ \E w \in QueueThreads :
                  witem'[w] = b /\ wstale'[w] /\ wpc'[w] = "got"
\* the worker's next step with a stale item skips it
C24_StaleSkipped ==
    \A w \in QueueThreads :
        (wpc[w] = "got" /\ wstale[w] /\ witem[w] # None /\ wpc'[w] # "got")
        => /\ wpc'[w] = "loop"
           /\ witem[w] \in dropped'
           /\ played' = played
\* C24: requests submitted during one playback all stay in the pending
\* sequence; the current request id is that of the last one, so every
\* earlier one leaves the queue only to be skipped as stale (or removed by
\* clear_pending) and is never passed to the callback, while the last one
\* is passed to the callback (unless a later request is submitted,
\* clear_pending is called or the queue is shut down).
C24_OnlyLastOfBurstPlayed ==
    /\ []C24_CurrentIsLast
    /\ [](\A b \in dropped : b \notin Range(played))
    /\ [][C24_BurstKeepsPending /\ C24_TakenStale /\ C24_StaleSkipped]_vars
    /\ \A b \in Requests :
           C24_LastOfBurst(b)
               ~> \/ b \in Range(played)
                  \/ nextId > b
                  \/ clearCalled
                  \/ stop_requested
\* request 3 was submitted last while request 1 is playing and request 2,
\* submitted before it, is still pending
C24_Witness ==
    /\ C24_LastOfBurst(3)
    /\ C24_Superseded(2)
    /\ audio_queue = <<2, 3>>
    /\ played = <<1>>

(* =============================================================== C25 *)
\* the worker's step after the comparison passes the item to the callback,
\* whatever the current request id is by then
C25_PlayedOnceCompared ==
    \A w \in QueueThreads :
        (wpc[w] = "start" /\ wpc'[w] # "start")
        => /\ wpc'[w] = "playing"
           /\ is_playing'
           /\ played' = Append(played, witem[w])
           /\ witem'[w] = witem[w]
\* the playback, once started, ends only by the callback's return, and no
\* step of a caller moves the worker
C25_RunsToCompletion ==
    /\ \A w \in QueueThreads :
           (wpc[w] = "playing" /\ wpc'[w] # "playing")
           => wpc'[w] = "finish" /\ witem'[w] = witem[w]
    /\ (\E t \in Callers : cpc'[t] # cpc[t]) => UNCHANGED <<wpc, witem>>
\* request b was submitted after the worker compared the request it holds
\* and before it set the playing flag: the call has returned, b is the
\* current request and is pending
C25_SubmittedAfterComparison(b) ==
    /\ AllIdle
    /\ \E w \in QueueThreads : wpc[w] = "start" /\ witem[w] # b
    /\ current_playback_id = b
    /\ b \in Pending
\* C25: a request that passed the comparison is passed to the callback and
\* runs to completion even if a newer request has been submitted since;
\* the newer request is in the pending sequence and is played afterwards
\* (unless a later request is submitted, clear_pending is called or the
\* queue is shut down).
C25_StalenessJudgedAtDequeue ==
    /\ [][C25_PlayedOnceCompared /\ C25_RunsToCompletion]_vars
    /\ \A b \in Requests :
           C25_SubmittedAfterComparison(b)
               ~> \/ /\ b \in Range(played)
                     /\ Len(played) >= 2
                     /\ played[Len(played) - 1] # b
                  \/ nextId > b
                  \/ clearCalled
                  \/ stop_requested
\* the worker holds request 1, compared and found current, and has not
\* yet set the playing flag; request 2 has been accepted and put since
C25_Witness ==
    /\ C25_SubmittedAfterComparison(2)
    /\ \E w \in QueueThreads : witem[w] = 1 /\ ~wstale[w]
    /\ ~is_playing
    /\ audio_queue = <<2>>
    /\ played = <<>>

(* =============================================================== C26 *)
\* with the stop flag set, a queue_audio call for an existing file can
\* still be made by any idle caller (as long as the model has ids left)
C26_StillAccepted ==
    \A t \in Callers :
        (stop_requested /\ cpc[t] = "idle" /\ nextId < MaxRequests)
        => ENABLED QueueAudioAccept(t)
\* an accepted call never takes the return of False
C26_AcceptedReturnsTrue ==
    \A t \in Callers : cid[t] # None => cpc[t] # "qa_false"
\* an accepted call makes its request the current one, and its put appends
\* the request and leads to the return of True, stop flag or not
C26_CurrentAndEnqueued ==
    \A t \in Callers :
        /\ (cid[t] = None /\ cid'[t] # None)
               => current_playback_id' = cid'[t]
        /\ (cpc[t] = "qa_put" /\ cpc'[t] # "qa_put")
               => /\ audio_queue' = Append(audio_queue, cid[t])
                  /\ cpc'[t] = "qa_ret"
\* once the worker has left its loop it stays out and starts no callback
C26_NoPlaybackAfterExit ==
    (\A w \in QueueThreads : wpc[w] = "stopped")
    => UNCHANGED <<wpc, played>>
\* C26: queue_audio does not look at the stop flag: after shutdown a
\* request for an existing file is still accepted, becomes the current
\* request, is put on the queue and True is returned; once the worker has
\* exited no request is passed to the callback.
C26_AcceptedAfterShutdownNeverPlayed ==
    /\ [](C26_StillAccepted /\ C26_AcceptedReturnsTrue)
    /\ [][C26_CurrentAndEnqueued /\ C26_NoPlaybackAfterExit]_vars
\* the worker has exited; request 1 was put behind the shutdown signal, is
\* the current request, its call is returning True, and it was not played
C26_Witness ==
    /\ stop_requested
    /\ \A w \in QueueThreads : wpc[w] = "stopped"
    /\ audio_queue = <<None, 1>>
    /\ current_playback_id = 1
    /\ \E t \in Callers : cpc[t] = "qa_ret" /\ cid[t] = 1
    /\ played = <<>>

(* =============================================================== C27 *)
\* the stop flag is set and the worker is past the point of its iteration
\* where a callback can still be started: in a playback, ending one, at the
\* loop test or out of the loop
C27_PastStart ==
    /\ stop_requested
    /\ \A w \in QueueThreads :
           wpc[w] \in {"playing", "finish", "loop", "stopped"}
\* C27: the stop flag stays set; with the flag set, a callback is started
\* only in the iteration under way, and from then on (as from any point of
\* the iteration past the start) none is started any more, whatever is
\* pending: at most one playback starts after shutdown set the flag.
C27_AtMostOneMorePlayback ==
    [][/\ stop_requested => stop_requested'
       /\ (stop_requested /\ played' # played) => C27_PastStart'
       /\ C27_PastStart => (C27_PastStart' /\ played' = played)]_vars
\* the stop flag is set while the worker, in the iteration under way, is
\* about to start a callback, and another request is pending
C27_Witness ==
    /\ stop_requested
    /\ \E w \in QueueThreads : wpc[w] = "start"
    /\ Pending # {}

(* ================================================================== *)
(* remote_tts_server.py: the /generate_tts endpoint creates a          *)
(* TTSRequest, puts it on tts_queue and waits for its completed event;  *)
(* one thread runs process_tts_queue.  Requests are numbered in the     *)
(* order they are created (request_id is a uuid prefix that decides     *)
(* nothing).  The /test endpoint queues a request with a fixed string   *)
(* as text the same way.  Waiting times are not measured: a wait on     *)
(* completed may time out whenever the event is not set.                *)
(* ================================================================== *)
\* requests created in one behaviour
MaxTtsRequests == 3

\* what data.get('text', '') can be and pass "if not text": a non-empty
\* string, a non-zero number, a non-empty JSON object
TextKinds == {"str", "number", "mapping"}
\* len(text) is defined (lines 244, 398)
HasLen(text) == text \in {"str", "mapping"}
\* text[:50] is defined (line 244)
Sliceable(text) == text = "str"
\* what the try block of lines 249-272 comes to: generate_tts_audio
\* returns a path, returns nothing, or it or the voice lookup raises
Generations == {"file", "nothing", "raised"}

\* TTSRequest.__init__ (lines 32-41); completed counts the set() calls
NewTTSRequest(text) ==
    [text |-> text, result_file |-> "None", error |-> "None",
     completed |-> 0]

\* the server started (lines 495-508), nothing queued
RemoteInit ==
    /\ QueueInit
    /\ EffectsIdle
    /\ VoiceIdle
    /\ BackendIdle
    /\ GeneratorIdle
    /\ tts_queue = <<>>
    /\ tts_requests = <<>>
    /\ is_processing = FALSE
    /\ server_stop_requested = FALSE
    /\ rpc = "loop"
    /\ tts_request = None
    /\ dequeued = <<>>
    /\ responses = <<>>

\* the state the remote server never touches
outsideRemote == <<queueVars, effectsVars, voiceVars, backendVars,
                   generatorVars>>
processorVars == <<rpc, tts_request, dequeued, is_processing>>

\* generate_tts, lines 375-401: the request is created and put; then
\* len(text) is taken, which raises for a number (answer 500); otherwise
\* the endpoint waits
GenerateTtsEndpoint(text) ==
    /\ Len(tts_requests) < MaxTtsRequests
    /\ tts_requests' = Append(tts_requests, NewTTSRequest(text))
    /\ tts_queue' = Append(tts_queue, Len(tts_requests) + 1)
    /\ responses' = Append(responses,
                           IF HasLen(text) THEN "waiting" ELSE "error")
    /\ UNCHANGED <<outsideRemote, processorVars, server_stop_requested>>

\* lines 404-421: completed.wait returned True; error, else no file, else
\* the file
EndpointAnswer(i) ==
    /\ i \in DOMAIN responses
    /\ responses[i] = "waiting"
    /\ tts_requests[i].completed > 0
    /\ responses' = [responses EXCEPT ![i] =
          IF tts_requests[i].error # "None" THEN "error"
          ELSE IF tts_requests[i].result_file = "None" THEN "error"
          ELSE "file"]
    /\ UNCHANGED <<outsideRemote, processorVars, server_stop_requested,
                   tts_queue, tts_requests>>

\* lines 404-407: completed.wait timed out
EndpointTimeout(i) ==
    /\ i \in DOMAIN responses
    /\ responses[i] = "waiting"
    /\ tts_requests[i].completed = 0
    /\ responses' = [responses EXCEPT ![i] = "timeout"]
    /\ UNCHANGED <<outsideRemote, processorVars, server_stop_requested,
                   tts_queue, tts_requests>>

\* line 228: while not stop_requested
ProcessLoop ==
    /\ rpc = "loop"
    /\ rpc' = IF server_stop_requested THEN "stopped" ELSE "get"
    /\ UNCHANGED <<outsideRemote, tts_queue, tts_requests, is_processing,
                   server_stop_requested, tts_request, dequeued, responses>>

\* line 232: tts_queue.get(timeout=1.0), an item is there
ProcessGet ==
    /\ rpc = "get"
    /\ tts_queue # <<>>
    /\ tts_request' = Head(tts_queue)
    /\ tts_queue' = Tail(tts_queue)
    /\ dequeued' = IF Head(tts_queue) = None THEN dequeued
                   ELSE Append(dequeued, Head(tts_queue))
    /\ rpc' = "got"
    /\ UNCHANGED <<outsideRemote, tts_requests, is_processing,
                   server_stop_requested, responses>>

\* lines 233-234: Empty, continue
ProcessGetTimeout ==
    /\ rpc = "get"
    /\ tts_queue = <<>>
    /\ rpc' = "loop"
    /\ UNCHANGED <<outsideRemote, tts_queue, tts_requests, is_processing,
                   server_stop_requested, tts_request, dequeued, responses>>

\* lines 239-247: None breaks the loop; the prints take text[:50] and
\* len(text), which raise into the outer handler when the text is not a
\* string; then is_processing = True
ProcessGot ==
    /\ rpc = "got"
    /\ IF tts_request = None
       THEN rpc' = "stopped" /\ UNCHANGED is_processing
       ELSE IF ~(Sliceable(tts_requests[tts_request].text)
                 /\ HasLen(tts_requests[tts_request].text))
       THEN rpc' = "handler" /\ UNCHANGED is_processing
       ELSE rpc' = "generate" /\ is_processing' = TRUE
    /\ UNCHANGED <<outsideRemote, tts_queue, tts_requests,
                   server_stop_requested, tts_request, dequeued, responses>>

\* lines 249-277: result_file and error as the generation comes out
ProcessGenerate(generation) ==
    /\ rpc = "generate"
    /\ tts_requests' = [tts_requests EXCEPT ![tts_request] =
          CASE generation = "file" ->
                   [@ EXCEPT !.result_file = "file"]
            [] generation = "nothing" ->
                   [@ EXCEPT !.error = "TTS generation failed"]
            [] generation = "raised" ->
                   [@ EXCEPT !.error = "str(e)"]]
    /\ rpc' = "complete"
    /\ UNCHANGED <<outsideRemote, tts_queue, is_processing,
                   server_stop_requested, tts_request, dequeued, responses>>

\* lines 280-282: completed.set(); is_processing = False; the iteration
\* is over and its request is no longer looked at
ProcessComplete ==
    /\ rpc = "complete"
    /\ tts_requests' = [tts_requests EXCEPT ![tts_request].completed = @ + 1]
    /\ is_processing' = FALSE
    /\ tts_request' = None
    /\ rpc' = "loop"
    /\ UNCHANGED <<outsideRemote, tts_queue, server_stop_requested,
                   dequeued, responses>>

\* lines 284-288: the outer handler: is_processing = False, sleep, and on
\* to the loop test
ProcessHandler ==
    /\ rpc = "handler"
    /\ is_processing' = FALSE
    /\ tts_request' = None
    /\ rpc' = "loop"
    /\ UNCHANGED <<outsideRemote, tts_queue, tts_requests,
                   server_stop_requested, dequeued, responses>>

\* lines 514-519: stop_requested = True; tts_queue.put(None)
ServerShutdown ==
    /\ ~server_stop_requested
    /\ rpc # "idle"
    /\ server_stop_requested' = TRUE
    /\ tts_queue' = Append(tts_queue, None)
    /\ UNCHANGED <<outsideRemote, tts_requests, processorVars, responses>>

RemoteNext ==
    \/ \E text \in TextKinds : GenerateTtsEndpoint(text)
    \/ \E i \in 1..MaxTtsRequests : EndpointAnswer(i)
    \/ \E i \in 1..MaxTtsRequests : EndpointTimeout(i)
    \/ ProcessLoop
    \/ ProcessGet
    \/ ProcessGetTimeout
    \/ ProcessGot
    \/ \E generation \in Generations : ProcessGenerate(generation)
    \/ ProcessComplete
    \/ ProcessHandler
    \/ ServerShutdown

RemoteSpec == RemoteInit /\ [][RemoteNext]_vars

RemoteTypeOK ==
    /\ rpc \in {"idle", "loop", "get", "got", "generate", "complete",
                "handler", "stopped"}
    /\ Len(tts_requests) <= MaxTtsRequests
    /\ Len(responses) = Len(tts_requests)
    /\ tts_request \in 0..MaxTtsRequests
    /\ \A k \in DOMAIN tts_queue : tts_queue[k] \in 0..Len(tts_requests)
    /\ \A i \in DOMAIN tts_requests :
           /\ tts_requests[i].text \in TextKinds
           /\ tts_requests[i].result_file \in {"None", "file"}
           /\ tts_requests[i].error
                  \in {"None", "TTS generation failed", "str(e)"}
    /\ \A i \in DOMAIN responses :
           responses[i] \in {"waiting", "file", "error", "timeout"}

(* =============================================================== C29 *)
\* the processor got request i and is no longer working on it
C29_Processed(i) == i \in Range(dequeued) /\ tts_request # i
\* C29: every request the processor dequeued has its completed event set
\* exactly once by the time the processor is through with it, and no
\* request has it set twice; with the event set exactly one of result_file
\* and error is set; requests are dequeued in the order they were put, one
\* being worked on at a time; is_processing is False while the processor
\* waits for the next request.
C29_RemoteQueueDiscipline ==
    /\ \A i \in DOMAIN tts_requests :
           /\ tts_requests[i].completed <= 1
           /\ C29_Processed(i) => tts_requests[i].completed = 1
           /\ tts_requests[i].completed = 1
                  => (tts_requests[i].result_file # "None")
                         # (tts_requests[i].error # "None")
    /\ \A k \in DOMAIN dequeued : dequeued[k] = k
    /\ is_processing => (tts_request # None /\ rpc \in {"generate", "complete"})
    /\ rpc \in {"loop", "get"} => ~is_processing

(* ================================================================== *)
(* chatterbox_generator.py, remote_tts_client.py: one generate_tts     *)
(* call, over every content of remote_config.json and every way the     *)
(* remote server and the local engine can come out.                     *)
(* ================================================================== *)
\* RemoteConfig: the settings generate_tts depends on (lines 119-135)
RemoteConfigs == [enabled : BOOLEAN, fallback_to_local : BOOLEAN]
\* RemoteTTSClient.generate_tts_file returns a file or None (lines 15-71);
\* "raises": a statement of _try_remote_tts raises (caught at line 79)
RemoteOutcomes == {"file", "none", "raises"}
\* _generate_local_tts (lines 84-115): no model loaded, the file is in the
\* cache, generate_audio returns a file, generate_audio returns None
LocalOutcomes == {"no_model", "cached", "generated", "failed"}

\* create_remote_client (lines 153-168): a client when remote TTS is
\* enabled and the connection test succeeds; None when it is disabled and,
\* with either value of fallback_to_local, when the test fails
CreateRemoteClient(config, reachable) ==
    IF config.enabled
    THEN IF reachable THEN "client"
         ELSE IF config.fallback_to_local THEN "None"
         ELSE "None"
    ELSE "None"

\* a generate_tts call
GeneratorInit ==
    /\ QueueInit
    /\ EffectsIdle
    /\ VoiceIdle
    /\ BackendIdle
    /\ RemoteIdle
    /\ gpc = "call"
    /\ remote_config \in RemoteConfigs
    /\ connection_ok \in BOOLEAN
    /\ remote_outcome \in RemoteOutcomes
    /\ local_outcome \in LocalOutcomes
    /\ remote_client = "None"
    /\ remote_file = "None"
    /\ local_called = FALSE
    /\ generate_result = "pending"

\* the state generate_tts never touches
outsideGenerator == <<queueVars, effectsVars, voiceVars, backendVars,
                      remoteVars>>
situation == <<remote_config, connection_ok, remote_outcome, local_outcome>>

\* _try_remote_tts, lines 60-62: remote_client = create_remote_client()
TryRemoteCreateClient ==
    /\ gpc = "call"
    /\ remote_client' = IF remote_outcome = "raises" THEN "None"
                        ELSE CreateRemoteClient(remote_config, connection_ok)
    /\ gpc' = "remote"
    /\ UNCHANGED <<outsideGenerator, situation, remote_file, local_called,
                   generate_result>>

\* _try_remote_tts, lines 64-82, and line 51 of generate_tts: the file of
\* generate_tts_file when there is a client and it returns one, else None
TryRemoteGenerate ==
    /\ gpc = "remote"
    /\ remote_file' = IF remote_client = "client" /\ remote_outcome = "file"
                      THEN "remote_file" ELSE "None"
    /\ gpc' = "decide"
    /\ UNCHANGED <<outsideGenerator, situation, remote_client, local_called,
                   generate_result>>

\* generate_tts, lines 52-56: return the remote file, else call
\* _generate_local_tts
GenerateTtsDecide ==
    /\ gpc = "decide"
    /\ IF remote_file # "None"
       THEN /\ generate_result' = remote_file
            /\ gpc' = "returned"
            /\ UNCHANGED local_called
       ELSE /\ local_called' = TRUE
            /\ gpc' = "local"
            /\ UNCHANGED generate_result
    /\ UNCHANGED <<outsideGenerator, situation, remote_client, remote_file>>

\* _generate_local_tts (lines 84-115) and the return of its value
GenerateLocalTts ==
    /\ gpc = "local"
    /\ generate_result' = IF local_outcome \in {"cached", "generated"}
                          THEN "local_file" ELSE "None"
    /\ gpc' = "returned"
    /\ UNCHANGED <<outsideGenerator, situation, remote_client, remote_file,
                   local_called>>

GeneratorNext ==
    \/ TryRemoteCreateClient
    \/ TryRemoteGenerate
    \/ GenerateTtsDecide
    \/ GenerateLocalTts

GeneratorSpec == GeneratorInit /\ [][GeneratorNext]_vars

GeneratorTypeOK ==
    /\ gpc \in {"idle", "call", "remote", "decide", "local", "returned"}
    /\ remote_config \in RemoteConfigs
    /\ remote_client \in {"None", "client"}
    /\ remote_file \in {"None", "remote_file"}
    /\ generate_result \in {"pending", "None", "remote_file", "local_file"}

(* =============================================================== C30 *)
\* the local engine was asked and had a model to generate with
C30_LocalGeneration == local_called /\ local_outcome # "no_model"
\* C30: with remote TTS enabled, the server unreachable and
\* fallback_to_local False, generate_tts performs no local generation and
\* returns no file; local generation after a remote failure happens only
\* with fallback_to_local True.
C30_FallbackSettingHonoured ==
    /\ (/\ gpc = "returned"
        /\ remote_config.enabled
        /\ ~connection_ok
        /\ ~remote_config.fallback_to_local)
       => (~C30_LocalGeneration /\ generate_result = "None")
    /\ (C30_LocalGeneration /\ remote_config.enabled)
       => remote_config.fallback_to_local

====
